---- MODULE Spec2Model ----
(***************************************************************************)
(* Session and worker orchestration of the IDA headless MCP gateway:       *)
(* session registry, session store, worker manager, per-session cache,     *)
(* progress tracker, watchdog, startup restore, and the session tools of   *)
(* the dispatcher. A handler is split into steps wherever another          *)
(* goroutine can change what the rest of the handler reads, so concurrent  *)
(* requests interleave the way goroutines do.                              *)
(***************************************************************************)
EXTENDS Integers, FiniteSets, Sequences, TLC

(* ------------------------------ bounds -------------------------------- *)
MaxIds == 2          \* session ids (uuid prefixes) handed out in one run
MaxNow == 2          \* clock, in watchdog periods (minutes)
MaxRestarts == 1     \* server restarts
MaxCap == 2          \* largest configured max_concurrent_sessions
MaxVer == 2          \* mutations applied to one worker database
sessionTimeout == 1  \* Server.sessionTimeout, in watchdog periods
MaxTotal == 3        \* items of a small enumeration
MaxProgress == 3     \* largest progress value a tool emits
MaxEmits == 3        \* progress emissions of one tool call
QueueCap == 1        \* buffer of a connection's outbound channel (256 in the code)
MaxReq == 3          \* messages a WebSocket peer sends on one connection
MaxPings == 4        \* ping intervals one connection is followed for
MaxStr == 2          \* characters of an envelope's correlation id
MaxChunks == 3       \* full chunks of strings a worker holds
MaxAttempts == 3     \* calls that unregister one WebSocket connection

\* program constants
defaultPageLimit == 1000
maxPageLimit == 10000
websocketPingIntervalBetweenMessagesInSeconds == 30
websocketPongWaitTimeoutDurationInSeconds == 60

Ids == 1..MaxIds
Requests == {"r1", "r2"}
RawPaths == {"/x", "/x/", "/y"}
Kinds == {"functions", "imports", "exports", "strings"}

\* filepath.Clean on the paths of RawPaths: a trailing slash is dropped.
Clean(p) == IF p = "/x/" THEN "/x" ELSE p

EmptyFn == [x \in {} |-> 0]
Remove(f, k) == [x \in DOMAIN f \ {k} |-> f[x]]
Put(f, k, v) == [x \in DOMAIN f \cup {k} |-> IF x = k THEN v ELSE f[x]]
Max(a, b) == IF a >= b THEN a ELSE b
Min(S) == CHOOSE x \in S : \A y \in S : x <= y

VARIABLES
  now,          \* time.Now()
  epoch,        \* number of server restarts so far
  boot,         \* "restoring" while RestoreSessions runs, "restored", "serving"
  metas,        \* RestoreSessions: the loaded metadata and what became of it
  maxSessions,  \* Registry.maxSessions
  nextId,       \* next fresh uuid prefix
  sessObj,      \* the Session structs, by id
  sessions,     \* Registry.sessions: the ids in the id index
  binaryIndex,  \* Registry.binaryIndex: normalized path -> id
  workers,      \* Manager.sessions: ids with a registered WorkerClient
  proc,         \* the worker process of each id: none, running, crashed, killed
  monitor,      \* ids whose monitorWorker goroutine is still waiting
  orphans,      \* worker processes of an earlier server run that still run
  sockFiles,    \* socket paths that exist on disk
  store,        \* Store: id -> persisted Metadata
  cache,        \* Server.cache: id -> (artifact kind -> database version cached)
  progress,     \* Server.progress: ids with a progress snapshot
  dbVer,        \* id -> version of the worker's database (mutations applied)
  settled,      \* id -> newest version whose mutating tool call has returned
  req,          \* the in-flight tool call of each request slot
  wd,           \* the Watchdog goroutine
  pg,           \* a list tool slicing its enumeration: arguments and page
  rep,          \* the progressReporter of a tool call, and what it was given and sent
  ws,           \* one WebSocket connection: its struct, its two loops and its peer
  env,          \* one WebSocket envelope, its JSON text and what is parsed from it
  ld,           \* one run of the strings loader against a worker's string list
  ls            \* one session's strings, its cached copy and the get_strings call on it

vars == <<now, epoch, boot, metas, maxSessions, nextId, sessObj, sessions,
          binaryIndex, workers, proc, monitor, orphans, sockFiles, store, cache,
          progress, dbVer, settled, req, wd, pg, rep, ws, env, ld, ls>>

\* the components no session tool, worker or watchdog step touches
auxVars == <<pg, rep, ws, env, ld, ls>>
sysVars == <<now, epoch, boot, metas, maxSessions, orphans, auxVars>>
coreVars == <<now, epoch, boot, metas, maxSessions, orphans, nextId, sessObj,
              sessions, binaryIndex, workers, proc, monitor, sockFiles, store,
              cache, progress, dbVer, settled, req, wd>>
notPg == <<coreVars, rep, ws, env, ld, ls>>
notRep == <<coreVars, pg, ws, env, ld, ls>>
notWs == <<coreVars, pg, rep, env, ld, ls>>
notEnv == <<coreVars, pg, rep, ws, ld, ls>>
notLd == <<coreVars, pg, rep, ws, env, ls>>
notLs == <<coreVars, pg, rep, ws, env, ld>>
regVars == <<nextId, sessObj, sessions, binaryIndex>>
mgrVars == <<workers, proc, monitor, sockFiles>>
srvVars == <<store, cache, progress, dbVer, settled>>

NoSession == [ID |-> 0]
Idle == [tool |-> "none", pc |-> "idle", path |-> "-", sid |-> 0, kind |-> "-",
         cancelled |-> FALSE, since |-> 0, got |-> 0, seen |-> "-", res |-> "-",
         obj |-> {}, dval |-> -1, fetched |-> FALSE, live |-> FALSE,
         prior |-> FALSE, peer |-> FALSE, at |-> -1, text |-> <<>>, msg |-> <<>>,
         retry |-> FALSE]
NoRestore == [loaded |-> EmptyFn, todo |-> {}, started |-> {}, failed |-> {},
              skipped |-> {}, before |-> EmptyFn]
WdIdle == [pc |-> "idle", due |-> FALSE, expired |-> {}, cur |-> 0, swept |-> {},
           dead |-> {}]
NoPage == [err |-> FALSE, items |-> <<>>, total |-> 0, offset |-> 0, count |-> 0,
           limit |-> 0]
PgIdle == [pc |-> "idle", total |-> 0, offset |-> 0, limit |-> 0, res |-> NoPage]

\* the components outside the session machinery, at rest
NoReporter == [pc |-> "none", token |-> FALSE, last |-> 0, given |-> <<>>,
               recorded |-> <<>>, sent |-> <<>>]
NoEnvelope == [type |-> "", id |-> 0]
NoConnection == [table |-> FALSE, ctx |-> FALSE, closed |-> FALSE, rd |-> "none",
                 wr |-> "none", cur |-> NoEnvelope, queue |-> <<>>, msg |-> NoEnvelope,
                 peer |-> "none", next |-> 1, pongs |-> FALSE, t |-> 0, deadline |-> 0,
                 pingDue |-> FALSE, handled |-> {}, enqueued |-> <<>>, written |-> <<>>,
                 cl |-> "none", waited |-> FALSE, attempts |-> 0, closeFrames |-> 0,
                 socketCloses |-> 0, queueCloses |-> 0]
AuxInit ==
  /\ pg = PgIdle /\ rep = NoReporter /\ ws = NoConnection
  /\ env = [pc |-> "none", made |-> <<>>, text |-> <<>>, parsed |-> <<>>]
  /\ ld = [pc |-> "none", data |-> <<>>, offset |-> 0, all |-> <<>>, asked |-> <<>>,
           total |-> 0, emitted |-> 0]
  /\ ls = [pc |-> "idle", data |-> <<>>, strings |-> <<>>, loaded |-> FALSE, regex |-> "", cs |-> FALSE,
           offset |-> 0, limit |-> 0, hit |-> FALSE, stringsData |-> <<>>,
           res |-> NoPage, prior |-> ""]

(* --------------------------- session / registry ----------------------- *)
\* the socket path allocated by Registry.Create and Registry.Restore: fresh
\* for every session struct
SocketPath(id) == <<id, epoch>>

\* Session.IsExpired
IsExpired(s) == now - s.LastActivity > s.Timeout

\* Session.Metadata
Metadata(s) == [ID |-> s.ID, BinaryPath |-> s.BinaryPath, CreatedAt |-> s.CreatedAt,
                LastActivity |-> s.LastActivity, Timeout |-> s.Timeout]

\* Session.Touch
Touch(id) == [sessObj EXCEPT ![id].LastActivity = now]

\* the capacity test of Registry.Create and Registry.Restore
RegistryOverfull == Cardinality(sessions) > maxSessions
RegistryFull == Cardinality(sessions) >= maxSessions

\* the session struct built by Registry.Create
NewSession(id, path) ==
  [ID |-> id, BinaryPath |-> Clean(path), CreatedAt |-> now, LastActivity |-> now,
   Timeout |-> sessionTimeout, SocketPath |-> SocketPath(id)]

\* the session struct built by Registry.Restore
RestoredSessionNow(meta) ==
  [ID |-> meta.ID, BinaryPath |-> Clean(meta.BinaryPath), CreatedAt |-> now,
   LastActivity |-> now, Timeout |-> meta.Timeout, SocketPath |-> SocketPath(meta.ID)]
RestoredSession(meta) ==
  [ID |-> meta.ID, BinaryPath |-> Clean(meta.BinaryPath), CreatedAt |-> meta.CreatedAt,
   LastActivity |-> meta.LastActivity, Timeout |-> meta.Timeout,
   SocketPath |-> SocketPath(meta.ID)]

\* Registry.FindByBinaryPath (0: not found)
FindByBinaryPath(path) ==
  IF Clean(path) \in DOMAIN binaryIndex THEN binaryIndex[Clean(path)] ELSE 0

\* Registry.Get
Get(id) == id \in sessions

\* Registry.Delete: the new path index
DeleteIndex(id) ==
  IF id \in sessions THEN Remove(binaryIndex, sessObj[id].BinaryPath) ELSE binaryIndex

\* Registry.Expired
Expired == {id \in sessions : IsExpired(sessObj[id])}

\* Registry.List, as list_sessions reports it
List == sessions

\* session ids a client can name: those handed out so far
KnownIds == 1..(nextId - 1)

(* ------------------------------- Init --------------------------------- *)
\* the server after construction with an empty session store and
\* max_concurrent_sessions = cap
Boot(cap) ==
  /\ now = 0
  /\ epoch = 0
  /\ boot = "serving"
  /\ metas = NoRestore
  /\ maxSessions = cap
  /\ nextId = 1
  /\ sessObj = [i \in Ids |-> NoSession]
  /\ sessions = {}
  /\ binaryIndex = EmptyFn
  /\ workers = {}
  /\ proc = [i \in Ids |-> "none"]
  /\ monitor = {}
  /\ orphans = {}
  /\ sockFiles = {}
  /\ store = EmptyFn
  /\ cache = EmptyFn
  /\ progress = {}
  /\ dbVer = [i \in Ids |-> 0]
  /\ settled = [i \in Ids |-> 0]
  /\ req = [r \in Requests |-> Idle]
  /\ wd = WdIdle
  /\ AuxInit

Init == \E cap \in 1..MaxCap : Boot(cap)

(* ---------------------------- worker manager -------------------------- *)
\* Manager.GetClient
GetClient(id) == id \in workers

\* Manager.Stop up to cmd.Wait, for a registered handle: the CloseSession RPC,
\* cancel, Kill and Wait
StopKill(id) == [proc EXCEPT ![id] = IF @ = "running" THEN "killed" ELSE @]

\* The socket files after Manager.Stop of a handle. Stop never unlinks the socket
\* path; a worker that is still running may unlink it while it serves
\* CloseSession, a dead one cannot.
StopSockets(id) ==
  IF proc[id] = "running"
  THEN {sockFiles, sockFiles \ {SocketPath(id)}}
  ELSE {sockFiles}

\* Manager.Stop: delete(m.sessions, sessionID)
StopDelete(id) == workers \ {id}

\* Manager.Start from waitForSocket's success on: the worker has bound its socket,
\* the handle is registered and the monitor goroutine is started.
StartRegister(id) ==
  /\ proc[id] = "running"
  /\ sockFiles' = sockFiles \cup {SocketPath(id)}
  /\ workers' = workers \cup {id}
  /\ monitor' = monitor \cup {id}
  /\ UNCHANGED proc

\* Manager.Start returning the timeout of waitForSocket with the process left
\* alone
StartTimeoutNoKill(id) == UNCHANGED <<proc, workers, monitor, sockFiles>>

\* Manager.Start when waitForSocket times out: cancel, Kill, Wait.
StartTimeout(id) ==
  /\ proc' = [proc EXCEPT ![id] = IF @ = "running" THEN "killed" ELSE @]
  /\ UNCHANGED <<workers, monitor, sockFiles>>

\* The worker process dies on its own or is killed from outside the gateway.
WorkerCrash(id) ==
  /\ proc[id] = "running"
  /\ proc' = [proc EXCEPT ![id] = "crashed"]
  /\ UNCHANGED <<sysVars, regVars, workers, monitor, sockFiles, srvVars, req, wd>>

\* Manager.monitorWorker: cmd.Wait returned, the handle is deleted.
monitorWorker(id) ==
  /\ id \in monitor
  /\ proc[id] # "running"
  /\ workers' = workers \ {id}
  /\ monitor' = monitor \ {id}
  /\ UNCHANGED <<sysVars, regVars, proc, sockFiles, srvVars, req, wd>>

\* A watchdog period passes: the ticker of Watchdog fires.
Tick ==
  /\ now < MaxNow
  /\ now' = now + 1
  /\ wd' = [wd EXCEPT !.due = TRUE]
  /\ UNCHANGED <<epoch, boot, metas, maxSessions, orphans, regVars, mgrVars,
                 srvVars, req, auxVars>>

(* ------------------------- cache and progress ------------------------- *)
\* Server.deleteSessionCache
deleteSessionCache(id) == Remove(cache, id)

\* Server.getSessionCache
getSessionCache(id) == IF id \in DOMAIN cache THEN cache ELSE Put(cache, id, EmptyFn)

\* what a mutating tool does to the cache once the worker reported success
keepSessionCache(id) == cache
invalidate(id) == deleteSessionCache(id)

\* The sessionCache object a list call holds (field obj of its request): none,
\* the object that Server.cache maps its session to, or an object that
\* deleteSessionCache has removed from the map since, named by the calls that
\* held it then. dval is what such a detached object holds for the call's kind
\* (Nil: the field is nil).
Nil == 0 - 1
NoObj == {}
InMap == {"map"}
Holders(rq, id) == {q \in DOMAIN rq : rq[q].sid = id /\ rq[q].obj = InMap}

\* the artifact kinds whose enumeration is empty for the binaries of this model:
\* they export nothing
EmptyKinds == {"exports"}

\* the field of kind k of the object Server.cache maps id to
Field(c, id, k) == IF id \in DOMAIN c /\ k \in DOMAIN c[id] THEN c[id][k] ELSE Nil

\* Server.deleteSessionCache, seen from the calls in flight: delete(s.cache, id)
\* leaves the object to the calls that hold it, and what was loaded for the
\* session before is no longer in the map
Detach(rq, id) ==
  [q \in DOMAIN rq |->
     IF rq[q].sid # id \/ rq[q].tool # "get" THEN rq[q]
     ELSE IF rq[q].obj = InMap
          THEN [rq[q] EXCEPT !.obj = Holders(rq, id), !.dval = Field(cache, id, rq[q].kind),
                             !.live = FALSE, !.prior = FALSE, !.peer = FALSE]
          ELSE [rq[q] EXCEPT !.live = FALSE, !.prior = FALSE, !.peer = FALSE]]

\* Server.recordProgress / Server.clearProgress
recordProgress(id) == progress \cup {id}
clearProgress(id) == progress \ {id}

\* Server.persistSession / Server.deleteSessionState
persistSession(id) == Put(store, id, Metadata(sessObj[id]))
deleteSessionState(id) == Remove(store, id)

(* ------------------------------ requests ------------------------------ *)
At(r, pc) == req[r].pc = pc
Goto(r, pc) == [req EXCEPT ![r].pc = pc]
Done(rq, r, res) == [rq EXCEPT ![r].pc = "done", ![r].res = res]
Serving == boot = "serving"

\* The client cancels its request context. Only worker RPCs read the context, so
\* the cancellation is recorded from the first point where one can follow.
CtxPcs == {"o_client", "o_rpc", "g_load", "g_rlock", "g_lock", "g_rpc", "m_rpc", "n_rpc"}
Cancel(r) ==
  /\ req[r].pc \in CtxPcs
  /\ ~req[r].cancelled
  /\ req' = [req EXCEPT ![r].cancelled = TRUE]
  /\ UNCHANGED <<sysVars, regVars, mgrVars, srvVars, wd>>

\* the tool result has been delivered
Return(r) ==
  /\ At(r, "done")
  /\ req' = [req EXCEPT ![r] = Idle]
  /\ UNCHANGED <<sysVars, regVars, mgrVars, srvVars, wd>>

\* The positions of openBinary that still read its Session struct after the
\* session may have left the registry; every other struct outside the registry is
\* unreachable and collected.
StructPcs == {"o_spawn", "o_wait", "o_client", "o_rpc", "o_persist"}
Collect(so, ss, rq) ==
  [i \in Ids |-> IF i \in ss \/ (\E r \in Requests : rq[r].sid = i /\ rq[r].pc \in StructPcs)
                 THEN so[i] ELSE NoSession]
regKeep(rq) ==
  /\ UNCHANGED <<nextId, sessions, binaryIndex>>
  /\ sessObj' = Collect(sessObj, sessions, rq)

\* a worker RPC made with the request's context can succeed
RpcCanSucceed(r) == ~req[r].cancelled /\ proc[req[r].sid] = "running"

\* the error strings behind a failed call: of Manager.GetClient, of an RPC whose
\* context was cancelled or whose worker is gone, and of the worker's own answer
InternalErrors == {"no worker for session", "context canceled",
                   "unavailable: dial unix /tmp/ida-worker.sock: connection refused",
                   "IDA: internal error"}
RpcError(r) ==
  IF req[r].cancelled THEN "context canceled"
  ELSE IF proc[req[r].sid] # "running"
       THEN "unavailable: dial unix /tmp/ida-worker.sock: connection refused"
       ELSE "IDA: internal error"

\* Server.logAndSanitizeError: the error is logged, and the text for the client
\* is the context followed by "failed"
logAndSanitizeError(context, err) == <<context, "failed">>

\* fmt.Sprintf of a format ending in %v (or %s) with the error
Sprintf(format, err) == <<format, err>>

(* ----------------------------- open_binary ---------------------------- *)
\* openBinary: a request arrives and calls Registry.FindByBinaryPath
openBinary_find(r, path) ==
  /\ Serving /\ At(r, "idle")
  /\ LET existing == FindByBinaryPath(path) IN
       req' = [req EXCEPT ![r] = [Idle EXCEPT !.tool = "open",
                                              !.path = IF existing # 0 THEN "-" ELSE path,
                                              !.sid = existing,
                                              !.at = IF existing # 0 THEN now ELSE Idle.at,
                                              !.pc = IF existing # 0 THEN "o_reuse"
                                                     ELSE "o_create"]]
  /\ regKeep(req')
  /\ UNCHANGED <<sysVars, mgrVars, srvVars, wd>>

\* openBinary, reuse branch: recordProgress and the reused:true result
openBinary_reuse(r) ==
  /\ At(r, "o_reuse")
  /\ progress' = recordProgress(req[r].sid)
  /\ req' = Done(req, r, "reused")
  /\ regKeep(req')
  /\ UNCHANGED <<sysVars, mgrVars, store, cache, dbVer, settled, wd>>

\* Registry.Create, and openBinary's emitProgress "Session created" and
\* "Starting Python worker" on success
Create(r) ==
  /\ At(r, "o_create")
  /\ IF RegistryFull
     THEN /\ req' = Done([req EXCEPT ![r].path = "-"], r, "e_create")
          /\ UNCHANGED <<regVars, progress>>
     ELSE /\ nextId <= MaxIds
          /\ sessObj' = [sessObj EXCEPT ![nextId] = NewSession(nextId, req[r].path)]
          /\ sessions' = sessions \cup {nextId}
          /\ binaryIndex' = Put(binaryIndex, Clean(req[r].path), nextId)
          /\ nextId' = nextId + 1
          /\ progress' = recordProgress(nextId)
          /\ req' = [req EXCEPT ![r].sid = nextId, ![r].path = "-", ![r].pc = "o_spawn"]
  /\ UNCHANGED <<sysVars, mgrVars, store, cache, dbVer, settled, wd>>

\* Manager.Start up to cmd.Start: the socket path is cleared and the process
\* spawned, or an error is returned
Start_spawn(r) ==
  /\ At(r, "o_spawn")
  /\ \/ /\ proc' = [proc EXCEPT ![req[r].sid] = "running"]
        /\ req' = Goto(r, "o_wait")
     \/ /\ req' = [req EXCEPT ![r].pc = "f_delete", ![r].res = "e_start"]
        /\ UNCHANGED proc
  /\ regKeep(req')
  /\ UNCHANGED <<sysVars, workers, monitor, sockFiles, srvVars, wd>>

\* Manager.Start from waitForSocket on, and openBinary's emitProgress
\* "Connecting to worker" on success
Start_wait(r) ==
  /\ At(r, "o_wait")
  /\ \/ /\ StartRegister(req[r].sid)
        /\ progress' = recordProgress(req[r].sid)
        /\ req' = Goto(r, "o_client")
     \/ /\ StartTimeout(req[r].sid)
        /\ req' = [req EXCEPT ![r].pc = "f_delete", ![r].res = "e_start"]
        /\ UNCHANGED progress
  /\ regKeep(req')
  /\ UNCHANGED <<sysVars, store, cache, dbVer, settled, wd>>

\* openBinary: Manager.GetClient, and emitProgress "Opening binary in IDA"
openBinary_getClient(r) ==
  /\ At(r, "o_client")
  /\ IF GetClient(req[r].sid)
     THEN /\ progress' = recordProgress(req[r].sid)
          /\ req' = Goto(r, "o_rpc")
     ELSE /\ req' = [req EXCEPT ![r].pc = "f_stop", ![r].cancelled = FALSE,
                                ![r].res = "e_fail",
                                ![r].text = logAndSanitizeError("worker client",
                                                                "no worker for session")]
          /\ UNCHANGED progress
  /\ regKeep(req')
  /\ UNCHANGED <<sysVars, mgrVars, store, cache, dbVer, settled, wd>>

\* openBinary: the OpenBinary RPC, made with the request's context. It fails when
\* that context is cancelled or the worker is gone, and may fail or report
\* Success=false otherwise. The result tag e_ctx marks the failure of an RPC that
\* was cancelled while the worker was running.
openBinary_rpc(r) ==
  /\ At(r, "o_rpc")
  /\ \/ /\ RpcCanSucceed(r)
        /\ req' = Goto(r, "o_persist")
     \/ /\ req' = [req EXCEPT ![r].pc = "f_stop", ![r].cancelled = FALSE,
                              ![r].res = IF req[r].cancelled /\ proc[req[r].sid] = "running"
                                         THEN "e_ctx" ELSE "e_fail",
                              ![r].text = logAndSanitizeError("RPC call", RpcError(r))]
  /\ regKeep(req')
  /\ UNCHANGED <<sysVars, mgrVars, srvVars, wd>>

\* openBinary: persistSession
openBinary_persist(r) ==
  /\ At(r, "o_persist")
  /\ store' = persistSession(req[r].sid)
  /\ req' = Goto(r, "o_ready")
  /\ regKeep(req')
  /\ UNCHANGED <<sysVars, mgrVars, cache, progress, dbVer, settled, wd>>

\* openBinary: emitProgress "Session ready" and the result
openBinary_ready(r) ==
  /\ At(r, "o_ready")
  /\ progress' = recordProgress(req[r].sid)
  /\ req' = Done(req, r, "ok")
  /\ regKeep(req')
  /\ UNCHANGED <<sysVars, mgrVars, store, cache, dbVer, settled, wd>>

(* ------------------------- teardown steps of tools -------------------- *)
\* Manager.Stop as called by a tool: without a handle it returns an error, with
\* one it closes, kills and reaps the process
Stop(r, pc, next, nohandle) ==
  /\ At(r, pc)
  /\ IF req[r].sid \in workers
     THEN /\ proc' = StopKill(req[r].sid)
          /\ sockFiles' \in StopSockets(req[r].sid)
          /\ req' = Goto(r, next)
     ELSE /\ req' = nohandle
          /\ UNCHANGED <<proc, sockFiles>>
  /\ regKeep(req')
  /\ UNCHANGED <<sysVars, workers, monitor, srvVars, wd>>

\* Manager.Stop as called by a tool: the handle is deleted
Stop_delete(r, pc, next) ==
  /\ At(r, pc)
  /\ workers' = StopDelete(req[r].sid)
  /\ req' = Goto(r, next)
  /\ regKeep(req')
  /\ UNCHANGED <<sysVars, proc, monitor, sockFiles, srvVars, wd>>

\* Registry.Delete, as called by a tool
Delete(r, pc, next) ==
  /\ At(r, pc)
  /\ binaryIndex' = DeleteIndex(req[r].sid)
  /\ sessions' = sessions \ {req[r].sid}
  /\ req' = Goto(r, next)
  /\ sessObj' = Collect(sessObj, sessions', req')
  /\ UNCHANGED <<sysVars, nextId, mgrVars, srvVars, wd>>

\* Server.deleteSessionState, as called by a session teardown
teardownState(r, pc, next) ==
  /\ At(r, pc)
  /\ store' = deleteSessionState(req[r].sid)
  /\ req' = Goto(r, next)
  /\ regKeep(req')
  /\ UNCHANGED <<sysVars, mgrVars, cache, progress, dbVer, settled, wd>>

\* Server.deleteSessionCache, as called by a session teardown
teardownCache(r, pc, next) ==
  /\ At(r, pc)
  /\ cache' = deleteSessionCache(req[r].sid)
  /\ req' = Detach(Goto(r, next), req[r].sid)
  /\ regKeep(req')
  /\ UNCHANGED <<sysVars, mgrVars, store, progress, dbVer, settled, wd>>

\* Server.clearProgress at the end of a teardown, and the result
teardownProgress(r, pc, res) ==
  /\ At(r, pc)
  /\ progress' = clearProgress(req[r].sid)
  /\ req' = Done(req, r, res)
  /\ regKeep(req')
  /\ UNCHANGED <<sysVars, mgrVars, store, cache, dbVer, settled, wd>>

\* openBinary: one step of a call by request r with a path of P
openBinary(r, P) ==
  \/ \E path \in P : openBinary_find(r, path)
  \/ openBinary_reuse(r)
  \/ Create(r)
  \/ Start_spawn(r)
  \/ Start_wait(r)
  \/ openBinary_getClient(r)
  \/ openBinary_rpc(r)
  \/ openBinary_persist(r)
  \/ openBinary_ready(r)
  \/ Stop(r, "f_stop", "f_stop2", Goto(r, "f_delete"))
  \/ Stop_delete(r, "f_stop2", "f_delete")
  \/ Delete(r, "f_delete", "f_cache")
  \/ teardownCache(r, "f_cache", "f_progress")
  \/ teardownProgress(r, "f_progress", req[r].res)

(* ----------------------------- close_binary --------------------------- *)
\* an open_binary call is still at work on the session
Opening(id) == \E q \in Requests : req[q].tool = "open" /\ req[q].sid = id /\ req[q].pc # "done"

\* what a close_binary call finds when it arrives: a session that is being opened,
\* or the state of the worker process of an open session
Seen(id) == IF Opening(id) THEN "opening" ELSE proc[id]

\* a handler whose Registry.Get found no session: it returns "session not found"
\* at once
sessionNotFoundLate(call) == [call EXCEPT !.pc = "g_load", !.res = "notfound"]
sessionNotFound(call) == [call EXCEPT !.pc = "done", !.res = "notfound"]

\* closeBinary: Registry.Get, or the "session not found" result
closeBinary_get(r, id) ==
  /\ Serving /\ At(r, "idle")
  /\ req' = IF Get(id)
            THEN [req EXCEPT ![r] = [Idle EXCEPT !.tool = "close", !.sid = id, !.at = now,
                                                 !.seen = Seen(id), !.pc = "c_stop"]]
            ELSE [req EXCEPT ![r] = sessionNotFound([Idle EXCEPT !.tool = "close",
                                                                 !.sid = id])]
  /\ UNCHANGED <<sysVars, regVars, mgrVars, srvVars, wd>>

\* closeBinary: one step of a call by request r on a session id of I. A failed
\* Manager.Stop ends the call with the session left in place.
closeBinary(r, I) ==
  \/ \E id \in I : closeBinary_get(r, id)
  \/ Stop(r, "c_stop", "c_stop2", Done(req, r, "e_stop"))
  \/ Stop_delete(r, "c_stop2", "c_delete")
  \/ Delete(r, "c_delete", "c_state")
  \/ teardownState(r, "c_state", "c_cache")
  \/ teardownCache(r, "c_cache", "c_progress")
  \/ teardownProgress(r, "c_progress", "ok")

(* ------------------- list tools over the session cache ---------------- *)
\* a load of kind k for session id has succeeded, and the session's cache has not
\* been invalidated since
Populated(id, k) ==
  \/ Field(cache, id, k) # Nil
  \/ \E q \in Requests : /\ req[q].tool = "get" /\ req[q].pc = "done" /\ req[q].live
                         /\ req[q].sid = id /\ req[q].kind = k

\* getFunctions, getImports, getExports, getStrings: Registry.Get, Session.Touch
\* and Manager.GetClient
getList_get(r, id, kind) ==
  /\ Serving /\ At(r, "idle")
  /\ LET call == [Idle EXCEPT !.tool = "get", !.sid = id, !.kind = kind,
                              !.since = settled[id],
                              !.at = IF Get(id) THEN now ELSE Idle.at] IN
       IF ~Get(id)
       THEN /\ req' = [req EXCEPT ![r] = sessionNotFound(call)]
            /\ UNCHANGED sessObj
       ELSE /\ sessObj' = Touch(id)
            /\ req' = [req EXCEPT ![r] =
                         IF GetClient(id) THEN [call EXCEPT !.pc = "g_load"]
                         ELSE [call EXCEPT !.pc = "done", !.res = "e_client",
                                           !.text = logAndSanitizeError("worker client",
                                                      "no worker for session")]]
  /\ UNCHANGED <<sysVars, nextId, sessions, binaryIndex, mgrVars, srvVars, wd>>

\* the calls that hold the sessionCache object call r holds
Sharers(rq, r) ==
  {q \in Requests \ {r} : rq[q].sid = rq[r].sid /\ rq[q].obj = rq[r].obj /\ rq[q].obj # NoObj}

\* another call holds the write lock of the object call r holds: from c.mu.Lock()
\* to the return of loadFunctions (loadImports, ...), the loader's RPC included
Locked(rq, r) == \E q \in Sharers(rq, r) : rq[q].pc = "g_rpc"

\* what the call's sessionCache object holds for the call's kind
HeldIn(rq, c, r) ==
  IF rq[r].obj = InMap THEN Field(c, rq[r].sid, rq[r].kind) ELSE rq[r].dval
Held(r) == HeldIn(req, cache, r)

\* the first part of sessionCache.loadFunctions (loadImports, ...), under the read
\* lock of the object: a field that is not nil is a HIT, reported as progress; a
\* nil field sends the call on to the write lock. Calls of one kind that have
\* found the field of one object nil and are not done are peers; prior records
\* that the load began after a load of the same entry had succeeded.
loadFunctions_read(r, rq, c) ==
  LET id == rq[r].sid
      k == rq[r].kind
      peers == {q \in Sharers(rq, r) : rq[q].kind = k /\ rq[q].pc \in {"g_lock", "g_rpc"}} IN
    IF HeldIn(rq, c, r) # Nil
    THEN /\ progress' = recordProgress(id)
         /\ req' = Done([rq EXCEPT ![r].got = HeldIn(rq, c, r), ![r].cancelled = FALSE,
                                   ![r].prior = TRUE, ![r].obj = NoObj, ![r].dval = Nil],
                        r, "hit")
    ELSE /\ UNCHANGED progress
         /\ req' = [q \in Requests |->
                      IF q = r THEN [rq[r] EXCEPT !.pc = "g_lock", !.peer = peers # {},
                                                  !.prior = Populated(id, k)]
                      ELSE IF q \in peers THEN [rq[q] EXCEPT !.peer = TRUE]
                      ELSE rq[q]]

\* a fetch of kind k for session id has failed, and the call has returned
Failed(id, k) ==
  \E q \in Requests : /\ req[q].tool = "get" /\ req[q].pc = "done" /\ req[q].res = "e_load"
                       /\ req[q].sid = id /\ req[q].kind = k

\* progressReporter, Server.getSessionCache and c.mu.RLock(): the call holds the
\* object of the map, and waits for the read lock while a loader runs under the
\* write lock of that object. retry records that the load began after a fetch of
\* the same session and kind had failed.
getList_check(r) ==
  /\ At(r, "g_load")
  /\ LET c == getSessionCache(req[r].sid)
         rq == [req EXCEPT ![r].obj = InMap,
                           ![r].retry = Failed(req[r].sid, req[r].kind)] IN
       /\ cache' = c
       /\ IF Locked(rq, r)
          THEN /\ req' = [rq EXCEPT ![r].pc = "g_rlock"]
               /\ UNCHANGED progress
          ELSE loadFunctions_read(r, rq, c)
  /\ UNCHANGED <<sysVars, regVars, mgrVars, store, dbVer, settled, wd>>

\* c.mu.RLock() returns: the write lock of the object has been released
getList_rlock(r) ==
  /\ At(r, "g_rlock") /\ ~Locked(req, r)
  /\ loadFunctions_read(r, req, cache)
  /\ UNCHANGED <<sysVars, regVars, mgrVars, store, cache, dbVer, settled, wd>>

\* c.functions = data (c.imports, ...): an empty list from the worker is a nil
\* slice (fetchAllStrings appends nothing to a nil slice; an empty repeated field
\* decodes to nil), so the field stays nil
Stored(k, ver) == IF k \in EmptyKinds THEN Nil ELSE ver

\* the requests after call r stored v for its kind in the object it holds
Store(r, v) ==
  [q \in Requests |->
     IF q # r /\ req[q].obj = req[r].obj /\ req[q].obj # InMap /\ req[q].obj # NoObj
          /\ req[q].kind = req[r].kind
     THEN [req[q] EXCEPT !.dval = v]
     ELSE req[q]]

\* the second part of sessionCache.loadFunctions (loadImports, ...): c.mu.Lock()
\* returns once no other call holds the write lock of the object. A field another
\* call has filled meanwhile is returned as it is; a field that is still nil is a
\* MISS, and the loader is called with the write lock held.
getList_lock(r) ==
  /\ At(r, "g_lock") /\ ~Locked(req, r)
  /\ req' = IF Held(r) # Nil
            THEN Done([req EXCEPT ![r].obj = NoObj, ![r].dval = Nil,
                                  ![r].cancelled = FALSE, ![r].got = Held(r)], r, "miss")
            ELSE Goto(r, "g_rpc")
  /\ UNCHANGED <<sysVars, regVars, mgrVars, srvVars, wd>>

\* what a loader that failed leaves in the field: return nil, false, err comes
\* before the assignment
loadFailedStored(field, data) == data
loadFailed(field, data) == field

\* the loader under the write lock: fetchAllFunctions (fetchAllImports, ...) asks
\* the worker with the request's context and emits progress. Its result is
\* assigned to the field and the lock released; on an error the progress message
\* is formatted with the error, nothing is stored, the lock is released and the
\* tool returns logAndSanitizeError.
getList_fetch(r) ==
  /\ At(r, "g_rpc")
  /\ LET id == req[r].sid
         k == req[r].kind
         v == Stored(k, dbVer[id])
         end == [req[r] EXCEPT !.obj = NoObj, !.dval = Nil, !.cancelled = FALSE]
         left == loadFailed(Held(r), dbVer[id]) IN
       /\ progress' = recordProgress(id)
       /\ \/ /\ RpcCanSucceed(r)
             /\ cache' = IF req[r].obj = InMap /\ v # Nil
                         THEN [cache EXCEPT ![id] = Put(@, k, v)] ELSE cache
             /\ req' = Done([Store(r, v) EXCEPT
                               ![r] = [end EXCEPT !.got = dbVer[id], !.fetched = TRUE,
                                                  !.live = req[r].obj = InMap]],
                            r, "miss")
          \/ /\ cache' = IF req[r].obj = InMap /\ left # Nil
                         THEN [cache EXCEPT ![id] = Put(@, k, left)] ELSE cache
             /\ req' = Done([Store(r, left) EXCEPT
                               ![r] = [end EXCEPT
                                         !.fetched = TRUE,
                                         !.msg = Sprintf("Failed to fetch", RpcError(r)),
                                         !.text = logAndSanitizeError("cache load",
                                                                      RpcError(r))]],
                            r, "e_load")
  /\ UNCHANGED <<sysVars, regVars, mgrVars, store, dbVer, settled, wd>>

getList(r, I, K) ==
  \/ \E id \in I, kind \in K : getList_get(r, id, kind)
  \/ getList_check(r)
  \/ getList_rlock(r)
  \/ getList_lock(r)
  \/ getList_fetch(r)

(* ------------------------------ pagination --------------------------- *)
\* the enumeration a list tool read through the cache, with n items
Enumeration(n) == [i \in 1..n |-> 4096 * i]

\* enumeration sizes, offsets and limits a client may send
Totals == 0..MaxTotal \cup {defaultPageLimit + 1}
Offsets == -1..(MaxTotal + 1)
Limits == -1..MaxTotal \cup {defaultPageLimit, maxPageLimit, maxPageLimit + 1}

\* normalizePagination: the limit after the default is applied
RawLimit(limit) == limit
NormLimit(limit) == IF limit <= 0 THEN defaultPageLimit ELSE limit

\* normalizePagination
normalizePagination(offset, limit) ==
  IF offset < 0 THEN [err |-> TRUE, offset |-> 0, limit |-> 0]
  ELSE IF NormLimit(limit) > maxPageLimit THEN [err |-> TRUE, offset |-> 0, limit |-> 0]
  ELSE [err |-> FALSE, offset |-> offset, limit |-> NormLimit(limit)]

\* the Go slice expression list[lo:hi]
Slice(list, lo, hi) == SubSeq(list, lo + 1, hi)

\* getFunctions (getImports, getExports, getStrings) from normalizePagination on:
\* the offset and the end are clamped to the total, the slice is mapped item by
\* item, and total, offset, count and limit are reported
Page(list, o, l) ==
  LET total == Len(list)
      n == normalizePagination(o, l) IN
    IF n.err THEN [NoPage EXCEPT !.err = TRUE]
    ELSE LET offset == IF n.offset > total THEN total ELSE n.offset
             end == IF offset + n.limit > total THEN total ELSE offset + n.limit
             items == Slice(list, offset, end) IN
           [err |-> FALSE, items |-> items, total |-> total, offset |-> offset,
            count |-> Len(items), limit |-> n.limit]

\* a list tool is called with offset o and limit l on an enumeration of n items
getList_args(n, o, l) ==
  /\ pg.pc = "idle"
  /\ pg' = [PgIdle EXCEPT !.pc = "slice", !.total = n, !.offset = o, !.limit = l]
  /\ UNCHANGED notPg

\* the list tool slices its enumeration
getList_page ==
  /\ pg.pc = "slice"
  /\ pg' = [pg EXCEPT !.pc = "done",
                      !.res = Page(Enumeration(pg.total), pg.offset, pg.limit)]
  /\ UNCHANGED notPg

\* the page has been delivered
getList_result ==
  /\ pg.pc = "done"
  /\ pg' = PgIdle
  /\ UNCHANGED notPg

(* --------------------------- strings loader --------------------------- *)
\* fetchAllStrings: const chunkSize = defaultPageLimit
chunkSize == defaultPageLimit

\* the sizes of the string lists tried: around every multiple of the chunk size
StringTotals ==
  {n \in {c * chunkSize + d : c \in 0..MaxChunks, d \in (0 - MaxTotal)..MaxTotal} : n >= 0}

\* the worker's GetStrings: the strings from offset on, at most limit of them (all
\* of them for a limit of 0 or less)
GetStrings(data, offset, limit) ==
  LET total == Len(data)
      start == IF offset > total THEN total ELSE offset
      count == IF limit <= 0 \/ start + limit > total THEN total - start ELSE limit
  IN Slice(data, start, start + Max(count, 0))

\* fetchAllStrings: the loop ends with the first chunk shorter than the chunk size
LastChunkOrFull(chunk) == Len(chunk) <= chunkSize
LastChunk(chunk) == Len(chunk) < chunkSize

\* fetchAllStrings is called for a worker holding n strings
fetchAllStrings_call(n) ==
  /\ ld.pc = "none"
  /\ ld' = [ld EXCEPT !.pc = "loop", !.data = Enumeration(n)]
  /\ UNCHANGED notLd

\* fetchAllStrings: one pass of the loop. The GetStrings RPC for chunkSize strings
\* at the offset fails, and nil is returned with the error; or its chunk is
\* appended, the total taken from the first answer that has one, progress
\* emitted, and the loop ends or goes on at the offset after the chunk.
fetchAllStrings_chunk ==
  /\ ld.pc = "loop"
  /\ LET chunk == GetStrings(ld.data, ld.offset, chunkSize)
         asked == Append(ld.asked, <<ld.offset, chunkSize>>) IN
       \/ ld' = [ld EXCEPT !.pc = "failed", !.asked = asked, !.all = <<>>,
                           !.emitted = Len(ld.all)]
       \/ ld' = [ld EXCEPT !.asked = asked,
                           !.all = @ \o chunk,
                           !.total = IF @ = 0 /\ Len(ld.data) > 0 THEN Len(ld.data) ELSE @,
                           !.emitted = Len(ld.all) + Len(chunk),
                           !.pc = IF LastChunk(chunk) THEN "done" ELSE "loop",
                           !.offset = IF LastChunk(chunk) THEN @ ELSE @ + Len(chunk)]
  /\ UNCHANGED notLd

(* ----------------------- get_strings with a filter -------------------- *)
\* the strings of a binary: n items, their values differing in case and in text
StringValues == <<"alpha", "Alpha", "beta">>
StringItems(n) ==
  [i \in 1..n |-> [Address |-> 4096 * i, Value |-> StringValues[((i - 1) % 3) + 1]]]

\* the regular expressions a client sends: none, a word, and one that does not
\* compile
Patterns == {"", "alpha", "Alpha", "beta", "("}
ToLower(v) == IF v = "Alpha" THEN "alpha" ELSE v

\* compileRegex: the expression is compiled as it is when case sensitive and
\* behind (?i) otherwise
compileRegex(expr, caseSensitive) ==
  [err |-> expr = "(", expr |-> expr, fold |-> ~caseSensitive]

\* Regexp.MatchString
MatchAny(regex, value) == TRUE
MatchString(regex, value) ==
  IF regex.fold THEN ToLower(value) = ToLower(regex.expr) ELSE value = regex.expr

\* getStrings is called with a regex, its case flag, an offset and a limit
getStrings_call(regex, cs, o, l) ==
  /\ ls.pc = "idle"
  /\ ls' = [ls EXCEPT !.pc = "load", !.regex = regex, !.cs = cs, !.offset = o,
                      !.limit = l, !.prior = ls.regex]
  /\ UNCHANGED notLs

\* getStrings: cache.loadStrings. A field that is not nil (loaded) is returned as
\* a HIT; else the loader runs, and it fails, or its list is assigned to the
\* field and returned (an empty list is a nil slice)
getStrings_load ==
  /\ ls.pc = "load"
  /\ \/ /\ ls.loaded
        /\ ls' = [ls EXCEPT !.pc = "filter", !.hit = TRUE, !.stringsData = ls.strings]
     \/ /\ ~ls.loaded
        /\ \/ ls' = [ls EXCEPT !.pc = "done", !.res = [NoPage EXCEPT !.err = TRUE]]
           \/ ls' = [ls EXCEPT !.pc = "filter", !.hit = FALSE, !.stringsData = ls.data,
                               !.strings = ls.data, !.loaded = ls.data # <<>>]
  /\ UNCHANGED notLs

\* getStrings from the filter on: with a regex the matching items are copied to
\* a new slice, which is paged and reported
getStrings_filter ==
  /\ ls.pc = "filter"
  /\ LET regex == compileRegex(ls.regex, ls.cs)
         match(item) == MatchString(regex, item.Value)
         filtered == IF ls.regex # "" THEN SelectSeq(ls.stringsData, match)
                     ELSE ls.stringsData IN
       ls' = [ls EXCEPT !.pc = "done",
                        !.res = IF ls.regex # "" /\ regex.err THEN [NoPage EXCEPT !.err = TRUE]
                                ELSE Page(filtered, ls.offset, ls.limit)]
  /\ UNCHANGED notLs

\* getStrings returns
getStrings_result ==
  /\ ls.pc = "done"
  /\ ls' = [ls EXCEPT !.pc = "idle", !.hit = FALSE, !.stringsData = <<>>, !.res = NoPage]
  /\ UNCHANGED notLs

\* runAutoAnalysis between two list calls: the analysis leaves the binary with n
\* strings, and deleteSessionCache drops what was cached
runAutoAnalysis_strings(n) ==
  /\ ls.pc = "idle"
  /\ ls' = [ls EXCEPT !.data = StringItems(n), !.strings = <<>>, !.loaded = FALSE]
  /\ UNCHANGED notLs

(* -------------------------- progress reporter ------------------------- *)
\* progress values a tool hands to Emit
Progress == 0..MaxProgress

\* newProgressReporter for a tool call: the request carries a progress token and
\* a server session, or it does not; last starts at zero
newProgressReporter(token) ==
  /\ rep.pc = "none"
  /\ rep' = [NoReporter EXCEPT !.pc = "active", !.token = token]
  /\ UNCHANGED notRep

\* progressReporter.Emit: "if progress < p.last { progress = p.last } else
\* { p.last = progress }": the value notified and the new p.last
Unclamped(value, last) == value
Clamp(value, last) == IF value < last THEN last ELSE value
NewLast(value, last) == IF value < last THEN last ELSE value

\* progressReporter.Emit: the recorder stores the value as given; without a token
\* or session nothing is notified; otherwise the clamped value is notified
Emit(value) ==
  /\ rep.pc = "active"
  /\ Len(rep.given) < MaxEmits
  /\ rep' = IF rep.token
            THEN [rep EXCEPT !.given = Append(@, value),
                             !.recorded = Append(@, value),
                             !.sent = Append(@, Clamp(value, rep.last)),
                             !.last = NewLast(value, rep.last)]
            ELSE [rep EXCEPT !.given = Append(@, value),
                             !.recorded = Append(@, value)]
  /\ UNCHANGED notRep

\* the tool call returns; its reporter is dropped
dropReporter ==
  /\ rep.pc = "active"
  /\ rep' = NoReporter
  /\ UNCHANGED notRep

(* ------------------------ WebSocket connection ------------------------ *)
\* Time on the connection is counted in seconds and advances by ping intervals.
\* For the peer: "ok" reads, sends and answers pings; "mute" has stopped sending
\* and answering, while its end still accepts what the server writes; "gone" has
\* closed its end. handled, enqueued and written record the requests whose
\* processing has returned, and the envelopes queued and written so far.
Ping == [type |-> "ping", id |-> 0]

\* HandleIncomingHttpConnectionUpgradeToWebSocket: the connection is registered in
\* the active-connection table and its read and write loops start; the read loop
\* sets the first read deadline and the write loop its ping ticker
HandleIncomingHttpConnectionUpgradeToWebSocket ==
  /\ ws.rd = "none"
  /\ ws' = [NoConnection EXCEPT
              !.table = TRUE, !.rd = "read", !.wr = "select", !.peer = "ok",
              !.deadline = websocketPongWaitTimeoutDurationInSeconds]
  /\ UNCHANGED notWs

\* the top of the read loop: it ends when the connection context is cancelled
ReadLoopTop(c) == IF c.ctx THEN "exit" ELSE "read"

\* the read loop: ReadMessage returns a message of the peer, and
\* processReceivedMessageAndSendResponse parses it: a request goes to the MCP
\* server, an envelope of another type is ignored, and what does not parse is
\* answered by an error envelope with an empty id
ReadMessage(kind) ==
  /\ ws.rd = "read" /\ ws.peer = "ok" /\ ~ws.closed
  /\ ws.t <= ws.deadline
  /\ ws.next <= MaxReq
  /\ ws' = CASE kind = "request" ->
                  [ws EXCEPT !.next = @ + 1, !.rd = "handle",
                             !.cur = [type |-> "request", id |-> ws.next]]
             [] kind = "garbage" ->
                  [ws EXCEPT !.next = @ + 1, !.rd = "enqueue",
                             !.cur = [type |-> "error", id |-> 0]]
             [] OTHER -> [ws EXCEPT !.next = @ + 1, !.rd = ReadLoopTop(ws)]
  /\ UNCHANGED notWs

\* the read loop: ReadMessage fails, because the read deadline has passed or the
\* peer or the socket is closed, and the loop breaks
ReadMessage_error ==
  /\ ws.rd = "read"
  /\ ws.t > ws.deadline \/ ws.peer = "gone" \/ ws.closed
  /\ ws' = [ws EXCEPT !.rd = "exit"]
  /\ UNCHANGED notWs

\* the pong handler, run by ReadMessage: the read deadline moves on
PongHandler ==
  /\ ws.rd = "read" /\ ws.pongs /\ ~ws.closed
  /\ ws.t <= ws.deadline
  /\ ws' = [ws EXCEPT !.pongs = FALSE,
                      !.deadline = ws.t + websocketPongWaitTimeoutDurationInSeconds]
  /\ UNCHANGED notWs

\* processReceivedMessageAndSendResponse: HandleMessage returns a response or an
\* error, and sendSuccessResponseToClient or sendErrorResponseToClient builds the
\* envelope with the id of the request
processReceivedMessageAndSendResponse ==
  /\ ws.rd = "handle"
  /\ \E type \in {"response", "error"} :
       ws' = [ws EXCEPT !.rd = "enqueue", !.cur = [type |-> type, id |-> ws.cur.id]]
  /\ UNCHANGED notWs

\* the read loop after processReceivedMessageAndSendResponse has returned
Processed(c) ==
  [c EXCEPT !.rd = ReadLoopTop(c), !.cur = NoEnvelope,
            !.handled = IF c.cur.id # 0 THEN @ \cup {c.cur.id} ELSE @]

\* enqueueMessageForTransmissionToClient, its first select: nothing is queued on
\* a connection whose context is cancelled; otherwise the send is attempted
enqueueMessageForTransmissionToClient ==
  /\ ws.rd = "enqueue"
  /\ ws' = IF ws.ctx THEN [Processed(ws) EXCEPT !.handled = ws.handled]
           ELSE [ws EXCEPT !.rd = "send"]
  /\ UNCHANGED notWs

\* the channel of outgoing messages has been closed (close(channel) of
\* performGracefulConnectionClosureAndCleanup)
ChannelClosed(c) == c.queueCloses > 0

\* the send case of the second select: the envelope goes to the end of the
\* channel's buffer when the buffer has room, and the read loop goes on
sendOrWriteThrough(c) ==
  IF Len(c.queue) < QueueCap
  THEN {Processed([c EXCEPT !.queue = Append(@, c.cur), !.enqueued = Append(@, c.cur.id)])}
  ELSE {Processed([c EXCEPT !.written = Append(@, c.cur.id),
                            !.enqueued = Append(@, c.cur.id)])}
sendOnChannel(c) ==
  IF Len(c.queue) < QueueCap
  THEN {Processed([c EXCEPT !.queue = Append(@, c.cur), !.enqueued = Append(@, c.cur.id)])}
  ELSE {}

\* enqueueMessageForTransmissionToClient, its second select: the envelope is sent
\* on the channel once it has room; a send on the closed channel panics, and the
\* panic, which nothing recovers, ends the process
enqueueMessageForTransmissionToClient_send ==
  /\ ws.rd = "send"
  /\ \/ /\ ChannelClosed(ws)
        /\ ws' = [ws EXCEPT !.rd = "panic", !.wr = "panic"]
     \/ /\ ~ChannelClosed(ws)
        /\ ws' \in sendOnChannel(ws)
  /\ UNCHANGED notWs

\* enqueueMessageForTransmissionToClient: the channel stays full for 5 seconds,
\* the write loop being busy with a write or gone, and the message is dropped
enqueueMessageForTransmissionToClient_timeout ==
  /\ ws.rd = "send" /\ ~ChannelClosed(ws)
  /\ Len(ws.queue) = QueueCap /\ ws.wr \in {"write", "exit"}
  /\ ws' = Processed(ws)
  /\ UNCHANGED notWs

\* the write loop's select: the context is cancelled, a message is taken from the
\* channel, or the ping ticker has fired
continuouslyWriteOutgoingMessagesToClientUntilConnectionCloses ==
  /\ ws.wr = "select"
  /\ \/ /\ ws.ctx
        /\ ws' = [ws EXCEPT !.wr = "exit"]
     \/ /\ ws.queue # <<>>
        /\ ws' = [ws EXCEPT !.wr = "write", !.msg = Head(ws.queue), !.queue = Tail(@)]
     \/ /\ ws.pingDue
        /\ ws' = [ws EXCEPT !.wr = "write", !.msg = Ping, !.pingDue = FALSE]
  /\ UNCHANGED notWs

\* writeMessageDataToWebSocketConnection / sendPingMessageToClientForKeepalive:
\* the frame is written, and a peer that answers pings sends its pong
WriteMessage ==
  /\ ws.wr = "write" /\ ws.peer \in {"ok", "mute"} /\ ~ws.closed
  /\ ws' = [ws EXCEPT !.wr = "select", !.msg = NoEnvelope,
                      !.written = IF ws.msg = Ping THEN @ ELSE Append(@, ws.msg.id),
                      !.pongs = @ \/ (ws.msg = Ping /\ ws.peer = "ok")]
  /\ UNCHANGED notWs

\* writeMessageDataToWebSocketConnection / sendPingMessageToClientForKeepalive:
\* the write fails or runs into its deadline, and the context is cancelled
WriteMessage_error ==
  /\ ws.wr = "write"
  /\ ws' = [ws EXCEPT !.wr = "select", !.msg = NoEnvelope, !.ctx = TRUE]
  /\ UNCHANGED notWs

\* unregisterAndCleanUpClientConnection: delete(map, id) under the table's lock
keepInTable(c) == c
deleteFromTable(c) == [c EXCEPT !.table = FALSE]

\* performGracefulConnectionClosureAndCleanup, whole: unless the connection is
\* marked closed, the context is cancelled, the close frame written, the socket
\* and the channel closed and the mark set
closeOnce(c) ==
  IF c.closed THEN c
  ELSE [c EXCEPT !.ctx = TRUE, !.closed = TRUE, !.queue = <<>>,
                 !.closeFrames = @ + 1, !.socketCloses = @ + 1, !.queueCloses = @ + 1]

\* the goroutine that waits for both loops: unregisterAndCleanUpClientConnection,
\* and performGracefulConnectionClosureAndCleanup when the connection was in the
\* table
unregisterAndCleanUpClientConnection ==
  /\ ws.rd = "exit" /\ ws.wr = "exit" /\ ~ws.waited
  /\ LET c == [ws EXCEPT !.waited = TRUE, !.attempts = @ + 1] IN
       ws' = IF ws.table THEN closeOnce(deleteFromTable(c)) ELSE c
  /\ UNCHANGED notWs

\* CloseAllActiveConnectionsGracefully, called while the connection is in the
\* table: unregisterAndCleanUpClientConnection removes it, and
\* performGracefulConnectionClosureAndCleanup takes the closure mutex, cancels
\* the context and starts writing the close frame
CloseAllActiveConnectionsGracefully ==
  /\ ws.table /\ ws.cl = "none" /\ ~ws.closed
  /\ ws' = [deleteFromTable(ws) EXCEPT !.ctx = TRUE, !.cl = "frame", !.attempts = @ + 1]
  /\ UNCHANGED notWs

\* CloseAllActiveConnectionsGracefully, called again or by another goroutine
\* whose snapshot of the table held the connection:
\* unregisterAndCleanUpClientConnection finds it gone and does nothing
CloseAllActiveConnectionsGracefully_again ==
  /\ ws.rd \notin {"none", "panic"} /\ ~ws.table /\ ws.attempts < MaxAttempts
  /\ ws' = [ws EXCEPT !.attempts = @ + 1]
  /\ UNCHANGED notWs

\* performGracefulConnectionClosureAndCleanup, called from
\* CloseAllActiveConnectionsGracefully: the close frame is written or its write
\* has failed, and the socket and the channel are closed
performGracefulConnectionClosureAndCleanup ==
  /\ ws.cl = "frame"
  /\ ws' = [closeOnce(ws) EXCEPT !.cl = "done"]
  /\ UNCHANGED notWs

\* the peer stops answering, or goes away
PeerFails(how) ==
  /\ ws.peer = "ok"
  /\ ws' = [ws EXCEPT !.peer = how]
  /\ UNCHANGED notWs

\* a step of the server is due at once: a failed read, a pong to read, a due
\* ping, a cancelled context seen by the write loop's select, a write (at most
\* 10 seconds), an enqueue (at most 5 seconds) or the cleanup
Busy ==
  \/ ws.rd = "read" /\ (ws.t > ws.deadline \/ ws.peer = "gone" \/ ws.closed \/ ws.pongs)
  \/ ws.rd \in {"enqueue", "send"}
  \/ ws.wr = "write"
  \/ ws.wr = "select" /\ (ws.ctx \/ ws.pingDue \/ ws.queue # <<>>)
  \/ ws.rd = "exit" /\ ws.wr = "exit" /\ ws.table
  \/ ws.cl = "frame"

\* a ping interval passes with nothing due: the ping ticker fires
PingTicker ==
  /\ ws.rd \notin {"none", "panic"} /\ ~Busy
  /\ ws.t < MaxPings * websocketPingIntervalBetweenMessagesInSeconds
  /\ ws' = [ws EXCEPT !.t = @ + websocketPingIntervalBetweenMessagesInSeconds,
                      !.pingDue = ws.wr = "select"]
  /\ UNCHANGED notWs

(* ------------------------- WebSocket envelope ------------------------- *)
\* An envelope is the Go struct: type and id are strings (sequences of
\* characters, <<>> the empty string) and each payload is a json.RawMessage (a
\* sequence of bytes of JSON text, <<>> a nil or empty one). A JSON object is the
\* sequence of its members <<key, bytes of the value>>.
PayloadKeys == <<"request", "response", "error", "notification">>

\* the envelopes tried: every type of the protocol and the empty one, ids with
\* characters that JSON escapes, and each payload absent, an object with and
\* without insignificant white space, null, or a string with white space in it
Envelopes ==
  LET Types == {<<>>, <<"request">>, <<"response">>, <<"error">>, <<"notification">>}
      CorrIds == UNION {[1..n -> {"a", "\"", "<"}] : n \in 0..MaxStr}
      Raw == {<<>>, <<"{", "}">>, <<"{", " ", "}">>, <<"null">>, <<"\"", "<", " ", "\"">>}
  IN [type : Types, id : CorrIds, request : Raw, response : Raw, error : Raw,
      notification : Raw]

\* encoding/json writing the characters of a string: quotes and backslashes are
\* escaped, and so is "<" (Marshal escapes HTML)
RECURSIVE appendString(_)
appendString(str) ==
  IF str = <<>> THEN <<>>
  ELSE LET c == Head(str)
       IN (CASE c = "\"" -> <<"\\", "\"">>
             [] c = "\\" -> <<"\\", "\\">>
             [] c = "<" -> <<"\\u003c">>
             [] OTHER -> <<c>>) \o appendString(Tail(str))

\* encoding/json reading the characters of a string literal
RECURSIVE unquote(_)
unquote(b) ==
  IF b = <<>> THEN <<>>
  ELSE IF Head(b) = "\\" /\ Len(b) > 1 THEN <<b[2]>> \o unquote(Tail(Tail(b)))
  ELSE IF Head(b) = "\\u003c" THEN <<"<">> \o unquote(Tail(b))
  ELSE <<Head(b)>> \o unquote(Tail(b))

\* encoding/json compacting what a RawMessage holds: white space outside of
\* strings goes, and "<" inside of strings is escaped
RECURSIVE compact(_, _)
compact(b, inString) ==
  IF b = <<>> THEN <<>>
  ELSE LET c == Head(b)
       IN IF c = "\"" THEN <<c>> \o compact(Tail(b), ~inString)
          ELSE IF c = " " /\ ~inString THEN compact(Tail(b), inString)
          ELSE IF c = "<" /\ inString THEN <<"\\u003c">> \o compact(Tail(b), inString)
          ELSE <<c>> \o compact(Tail(b), inString)

\* json.Marshal with the payload fields not tagged omitempty: a nil RawMessage
\* is written as null
MarshalAll(e) ==
  LET Quoted(str) == <<"\"">> \o appendString(str) \o <<"\"">>
      Payload(k) == << <<k, IF e[k] = <<>> THEN <<"null">> ELSE compact(e[k], FALSE)>> >>
  IN << <<"type", Quoted(e.type)>> >>
     \o (IF e.id = <<>> THEN <<>> ELSE << <<"id", Quoted(e.id)>> >>)
     \o Payload(PayloadKeys[1]) \o Payload(PayloadKeys[2])
     \o Payload(PayloadKeys[3]) \o Payload(PayloadKeys[4])

\* json.Marshal of an envelope: "type" is always written, "id" and the payloads
\* have omitempty and are left out when empty
Marshal(e) ==
  LET Quoted(str) == <<"\"">> \o appendString(str) \o <<"\"">>
      Payload(k) == IF e[k] = <<>> THEN <<>> ELSE << <<k, compact(e[k], FALSE)>> >>
  IN << <<"type", Quoted(e.type)>> >>
     \o (IF e.id = <<>> THEN <<>> ELSE << <<"id", Quoted(e.id)>> >>)
     \o Payload(PayloadKeys[1]) \o Payload(PayloadKeys[2])
     \o Payload(PayloadKeys[3]) \o Payload(PayloadKeys[4])

\* json.Unmarshal into a zero envelope: a member sets its field, a string from
\* its literal and a RawMessage to the bytes of the value; other fields stay zero
Unmarshal(text) ==
  LET Has(k) == \E i \in 1..Len(text) : text[i][1] = k
      Value(k) == text[CHOOSE i \in 1..Len(text) : text[i][1] = k][2]
      String(k) == IF Has(k) THEN unquote(SubSeq(Value(k), 2, Len(Value(k)) - 1)) ELSE <<>>
      RawMessage(k) == IF Has(k) THEN Value(k) ELSE <<>>
  IN [type |-> String("type"), id |-> String("id"),
      request |-> RawMessage("request"), response |-> RawMessage("response"),
      error |-> RawMessage("error"), notification |-> RawMessage("notification")]

\* an envelope is built
MakeEnvelope ==
  /\ env.pc = "none"
  /\ \E e \in Envelopes : env' = [env EXCEPT !.pc = "made", !.made = e]
  /\ UNCHANGED notEnv

\* sendSuccessResponseToClient / sendErrorResponseToClient: json.Marshal
SerializeEnvelope ==
  /\ env.pc = "made"
  /\ env' = [env EXCEPT !.pc = "text", !.text = Marshal(env.made)]
  /\ UNCHANGED notEnv

\* processReceivedMessageAndSendResponse: json.Unmarshal
ParseEnvelope ==
  /\ env.pc = "text"
  /\ env' = [env EXCEPT !.pc = "parsed", !.parsed = Unmarshal(env.text)]
  /\ UNCHANGED notEnv

(* ------------------ make_function and run_auto_analysis --------------- *)
\* mutating calls in flight on a session
Mutating(id) == {r \in Requests : req[r].sid = id /\ req[r].pc \in {"m_rpc", "m_inval"}}

\* makeFunction / runAutoAnalysis: Registry.Get, Session.Touch, Manager.GetClient;
\* runAutoAnalysis then emits progress "Running plan_and_wait"
mutate_get(r, id, tool) ==
  /\ Serving /\ At(r, "idle")
  /\ dbVer[id] + Cardinality(Mutating(id)) < MaxVer
  /\ LET call == [Idle EXCEPT !.tool = tool, !.sid = id,
                              !.at = IF Get(id) THEN now ELSE Idle.at] IN
       IF ~Get(id)
       THEN /\ req' = [req EXCEPT ![r] = sessionNotFound(call)]
            /\ UNCHANGED <<sessObj, progress>>
       ELSE /\ sessObj' = Touch(id)
            /\ IF GetClient(id)
               THEN /\ req' = [req EXCEPT ![r] = [call EXCEPT !.pc = "m_rpc"]]
                    /\ progress' = IF tool = "auto" THEN recordProgress(id) ELSE progress
               ELSE /\ req' = [req EXCEPT ![r] =
                                 [call EXCEPT !.pc = "done", !.res = "e_client",
                                              !.text = logAndSanitizeError("worker client",
                                                         "no worker for session")]]
                    /\ UNCHANGED progress
  /\ UNCHANGED <<sysVars, nextId, sessions, binaryIndex, mgrVars, store, cache,
                 dbVer, settled, wd>>

\* the MakeFunction / PlanAndWait RPC, made with the request's context: the worker
\* changes its database and reports success, or the call fails (for makeFunction
\* also: the worker answers success=false) and the database is as before
mutate_rpc(r) ==
  /\ At(r, "m_rpc")
  /\ LET id == req[r].sid IN
       \/ /\ RpcCanSucceed(r)
          /\ dbVer' = [dbVer EXCEPT ![id] = @ + 1]
          /\ req' = [req EXCEPT ![r].pc = "m_inval", ![r].got = dbVer[id] + 1]
          /\ progress' = IF req[r].tool = "auto" THEN recordProgress(id) ELSE progress
       \/ /\ req' = Done([req EXCEPT
                             ![r].cancelled = FALSE,
                             ![r].msg = IF req[r].tool = "auto" /\ ~req[r].cancelled
                                        THEN Sprintf("plan_and_wait failed", RpcError(r))
                                        ELSE <<>>,
                             ![r].text = logAndSanitizeError("RPC call", RpcError(r))],
                          r, "e_rpc")
          /\ progress' = IF req[r].tool = "auto" /\ ~req[r].cancelled
                         THEN recordProgress(id) ELSE progress
          /\ UNCHANGED dbVer
  /\ UNCHANGED <<sysVars, regVars, mgrVars, store, cache, settled, wd>>

\* makeFunction / runAutoAnalysis after the worker reported success: the session
\* cache is invalidated and the success result returned
mutate_invalidate(r) ==
  /\ At(r, "m_inval")
  /\ cache' = invalidate(req[r].sid)
  /\ settled' = [settled EXCEPT ![req[r].sid] = Max(@, req[r].got)]
  /\ req' = Done(Detach(req, req[r].sid), r, "ok")
  /\ UNCHANGED <<sysVars, regVars, mgrVars, store, progress, dbVer, wd>>

makeFunction(r, I) ==
  \/ \E id \in I : mutate_get(r, id, "make")
  \/ mutate_rpc(r)
  \/ mutate_invalidate(r)

runAutoAnalysis(r, I) == \E id \in I : mutate_get(r, id, "auto")

(* ---- set_name, rename_global, set_function_type, import_il2cpp/flutter ---- *)
\* renaming calls in flight on a session
Renaming(id) == {r \in Requests : req[r].sid = id /\ req[r].pc = "n_rpc"}

\* setName (renameGlobal, setFunctionType, importIl2cpp and importFlutter have the
\* same shape): Registry.Get, Session.Touch, Manager.GetClient
setName_get(r, id) ==
  /\ Serving /\ At(r, "idle")
  /\ dbVer[id] + Cardinality(Renaming(id)) < MaxVer
  /\ LET call == [Idle EXCEPT !.tool = "name", !.sid = id,
                              !.at = IF Get(id) THEN now ELSE Idle.at] IN
       IF ~Get(id)
       THEN /\ req' = [req EXCEPT ![r] = sessionNotFound(call)]
            /\ UNCHANGED sessObj
       ELSE /\ sessObj' = Touch(id)
            /\ req' = [req EXCEPT ![r] =
                         IF GetClient(id)
                         THEN [call EXCEPT !.pc = "n_rpc"]
                         ELSE [call EXCEPT !.pc = "done", !.res = "e_client",
                                           !.text = logAndSanitizeError("worker client",
                                                      "no worker for session")]]
  /\ UNCHANGED <<sysVars, nextId, sessions, binaryIndex, mgrVars, store, cache,
                 progress, dbVer, settled, wd>>

\* the SetName RPC: the worker renames in its database and the handler returns
\* the success result at once; the session cache is left as it is. settled
\* records the database version that a returned mutation has produced.
setName_rpc(r) ==
  /\ At(r, "n_rpc")
  /\ LET id == req[r].sid IN
       \/ /\ RpcCanSucceed(r)
          /\ dbVer' = [dbVer EXCEPT ![id] = @ + 1]
          /\ settled' = [settled EXCEPT ![id] = Max(@, dbVer[id] + 1)]
          /\ req' = Done([req EXCEPT ![r].got = dbVer[id] + 1], r, "ok")
       \/ /\ req' = Done([req EXCEPT
                             ![r].cancelled = FALSE,
                             ![r].text = logAndSanitizeError("RPC call", RpcError(r))],
                          r, "e_rpc")
          /\ UNCHANGED <<dbVer, settled>>
  /\ UNCHANGED <<sysVars, regVars, mgrVars, store, cache, progress, wd>>

setName(r, I) ==
  \/ \E id \in I : setName_get(r, id)
  \/ setName_rpc(r)

(* ------------------------------ Watchdog ------------------------------ *)
\* the next session of the sweep, or the end of the sweep
WatchdogNext(w, todo) ==
  IF todo = {} THEN {[w EXCEPT !.pc = "idle", !.expired = {}, !.cur = 0]}
  ELSE {[w EXCEPT !.pc = "w_stop", !.expired = todo \ {id}, !.cur = id] : id \in todo}

\* Watchdog: the ticker fired; the sweep starts from the snapshot Registry.Expired().
\* swept and dead record, for the sweep, the sessions it handled and the
\* registered sessions whose worker process was already dead when it began.
Watchdog_tick ==
  /\ Serving /\ wd.pc = "idle" /\ wd.due
  /\ wd' \in WatchdogNext([wd EXCEPT !.due = FALSE, !.swept = {},
                                     !.dead = {id \in sessions : proc[id] = "crashed"}],
                          Expired)
  /\ UNCHANGED <<sysVars, regVars, mgrVars, srvVars, req>>

\* Watchdog: Manager.Stop, its error ignored
Watchdog_stop ==
  /\ wd.pc = "w_stop"
  /\ IF wd.cur \in workers
     THEN /\ proc' = StopKill(wd.cur)
          /\ sockFiles' \in StopSockets(wd.cur)
          /\ workers' = StopDelete(wd.cur)
     ELSE UNCHANGED <<proc, sockFiles, workers>>
  /\ wd' = [wd EXCEPT !.pc = "w_delete"]
  /\ UNCHANGED <<sysVars, regVars, monitor, srvVars, req>>

\* Watchdog: Registry.Delete
Watchdog_delete ==
  /\ wd.pc = "w_delete"
  /\ binaryIndex' = DeleteIndex(wd.cur)
  /\ sessions' = sessions \ {wd.cur}
  /\ sessObj' = Collect(sessObj, sessions', req)
  /\ wd' = [wd EXCEPT !.pc = "w_state"]
  /\ UNCHANGED <<sysVars, nextId, mgrVars, srvVars, req>>

\* Watchdog: deleteSessionState
Watchdog_state ==
  /\ wd.pc = "w_state"
  /\ store' = deleteSessionState(wd.cur)
  /\ wd' = [wd EXCEPT !.pc = "w_cache"]
  /\ UNCHANGED <<sysVars, regVars, mgrVars, cache, progress, dbVer, settled, req>>

\* Watchdog: deleteSessionCache
Watchdog_cache ==
  /\ wd.pc = "w_cache"
  /\ cache' = deleteSessionCache(wd.cur)
  /\ req' = Detach(req, wd.cur)
  /\ wd' = [wd EXCEPT !.pc = "w_progress"]
  /\ UNCHANGED <<sysVars, regVars, mgrVars, store, progress, dbVer, settled>>

\* Watchdog: clearProgress, then the next expired session of the snapshot
Watchdog_progress ==
  /\ wd.pc = "w_progress"
  /\ progress' = clearProgress(wd.cur)
  /\ wd' \in WatchdogNext([wd EXCEPT !.swept = @ \cup {wd.cur}], wd.expired)
  /\ UNCHANGED <<sysVars, regVars, mgrVars, store, cache, dbVer, settled, req>>

Watchdog ==
  \/ Watchdog_tick
  \/ Watchdog_stop
  \/ Watchdog_delete
  \/ Watchdog_state
  \/ Watchdog_cache
  \/ Watchdog_progress

(* ----------------------- shutdown, restart, restore ------------------- *)
\* the sessions whose worker the shutdown handler stops: Manager.Stop for every
\* session of Registry.List()
Stopped == {id \in List : id \in workers}

\* the socket files after the shutdown: a worker stopped while running may have
\* unlinked its socket
ShutdownSockets ==
  {sockFiles \ {SocketPath(id) : id \in U} :
     U \in SUBSET {i \in Stopped : proc[i] = "running"}}

\* Store.Load: the metadata files on disk
Load == store

\* the last_activity of the registered sessions, as list_sessions reports it
LastActivities == [id \in List |-> sessObj[id].LastActivity]

\* The server is shut down (main: Manager.Stop for every listed session, then
\* os.Exit) and started again, possibly with another max_concurrent_sessions. The
\* memory of the old process is gone; the store directory, the socket files and
\* the worker processes that were not stopped remain. The new process loads the
\* persisted metadata.
Restart ==
  /\ Serving /\ epoch < MaxRestarts
  /\ epoch' = epoch + 1
  /\ maxSessions' \in 1..MaxCap
  /\ orphans' = orphans \cup {SocketPath(id) : id \in {i \in Ids \ Stopped : proc[i] = "running"}}
  /\ proc' = [i \in Ids |-> "none"]
  /\ sessObj' = [i \in Ids |-> NoSession]
  /\ sessions' = {}
  /\ binaryIndex' = EmptyFn
  /\ workers' = {}
  /\ monitor' = {}
  /\ cache' = EmptyFn
  /\ progress' = {}
  /\ req' = [r \in Requests |-> Idle]
  /\ wd' = WdIdle
  /\ metas' = [NoRestore EXCEPT !.loaded = Load, !.todo = DOMAIN Load,
                                !.before = LastActivities]
  /\ boot' = IF DOMAIN Load = {} THEN "restored" ELSE "restoring"
  /\ sockFiles' \in ShutdownSockets
  /\ UNCHANGED <<now, nextId, store, dbVer, settled, auxVars>>

\* RestoreSessions, one metadata record: Registry.Restore, then Manager.Start;
\* a session whose worker does not start is deleted again, with its metadata file
\* and cache. No request and no watchdog runs yet.
RestoreSessions_one ==
  /\ boot = "restoring"
  /\ LET id == Min(metas.todo)
         meta == metas.loaded[id]
         sess == RestoredSession(meta)
         rest == metas.todo \ {id}
         after == IF rest = {} THEN "restored" ELSE "restoring" IN
       /\ boot' = after
       /\ IF RegistryFull \/ id \in sessions
          THEN /\ metas' = [metas EXCEPT !.todo = rest, !.skipped = @ \cup {id}]
               /\ UNCHANGED <<sessObj, sessions, binaryIndex, mgrVars, store, cache>>
          ELSE \/ /\ metas' = [metas EXCEPT !.todo = rest, !.started = @ \cup {id}]
                  /\ sessObj' = [sessObj EXCEPT ![id] = sess]
                  /\ sessions' = sessions \cup {id}
                  /\ binaryIndex' = Put(binaryIndex, sess.BinaryPath, id)
                  /\ proc' = [proc EXCEPT ![id] = "running"]
                  /\ sockFiles' = sockFiles \cup {SocketPath(id)}
                  /\ workers' = workers \cup {id}
                  /\ monitor' = monitor \cup {id}
                  /\ UNCHANGED <<store, cache>>
               \/ /\ metas' = [metas EXCEPT !.todo = rest, !.failed = @ \cup {id}]
                  /\ binaryIndex' = Remove(binaryIndex, sess.BinaryPath)
                  /\ store' = deleteSessionState(id)
                  /\ cache' = deleteSessionCache(id)
                  /\ \E p \in {"none", "killed"} : proc' = [proc EXCEPT ![id] = p]
                  /\ UNCHANGED <<sessObj, sessions, workers, monitor, sockFiles>>
  /\ UNCHANGED <<now, epoch, maxSessions, orphans, nextId, progress, dbVer,
                 settled, req, wd, auxVars>>

\* main: RestoreSessions has returned; the watchdog and the listener start
Serve ==
  /\ boot = "restored"
  /\ boot' = "serving"
  /\ UNCHANGED <<now, epoch, metas, maxSessions, orphans, regVars, mgrVars,
                 srvVars, req, wd, auxVars>>

\* the worker processes and their monitors
Environment ==
  \/ \E id \in Ids : WorkerCrash(id)
  \/ \E id \in Ids : monitorWorker(id)

\* concurrent open_binary calls
Next ==
  \/ Environment
  \/ \E r \in Requests : Cancel(r)
  \/ \E r \in Requests : Return(r)
  \/ \E r \in Requests : openBinary(r, RawPaths)

Spec == Init /\ [][Next]_vars

\* the server after one open_binary("/x") has returned its new session
Opened ==
  /\ now = 0
  /\ epoch = 0
  /\ boot = "serving"
  /\ metas = NoRestore
  /\ maxSessions = MaxCap
  /\ nextId = 2
  /\ sessObj = [i \in Ids |-> IF i = 1 THEN NewSession(1, "/x") ELSE NoSession]
  /\ sessions = {1}
  /\ binaryIndex = Put(EmptyFn, "/x", 1)
  /\ workers = {1}
  /\ proc = [i \in Ids |-> IF i = 1 THEN "running" ELSE "none"]
  /\ monitor = {1}
  /\ orphans = {}
  /\ sockFiles = {<<1, 0>>}
  /\ store = Put(EmptyFn, 1, [ID |-> 1, BinaryPath |-> "/x", CreatedAt |-> 0,
                              LastActivity |-> 0, Timeout |-> sessionTimeout])
  /\ cache = EmptyFn
  /\ progress = {1}
  /\ dbVer = [i \in Ids |-> 0]
  /\ settled = [i \in Ids |-> 0]
  /\ req = [r \in Requests |-> Idle]
  /\ wd = WdIdle
  /\ AuxInit

\* one session's list tools and mutating tools
NextCache ==
  \/ Environment
  \/ \E r \in Requests : Cancel(r)
  \/ \E r \in Requests : Return(r)
  \/ \E r \in Requests : getList(r, KnownIds, Kinds)
  \/ \E r \in Requests : makeFunction(r, KnownIds)
  \/ \E r \in Requests : runAutoAnalysis(r, KnownIds)

SpecCache == Opened /\ [][NextCache]_vars

\* one session's get_functions and renaming tools
NextRename ==
  \/ Environment
  \/ \E r \in Requests : Cancel(r)
  \/ \E r \in Requests : Return(r)
  \/ \E r \in Requests : getList(r, KnownIds, {"functions"})
  \/ \E r \in Requests : setName(r, KnownIds)

SpecRename == Opened /\ [][NextRename]_vars

\* open, crash and close
NextClose ==
  \/ Environment
  \/ \E r \in Requests : Return(r)
  \/ \E r \in Requests : openBinary(r, {"/x"})
  \/ \E r \in Requests : closeBinary(r, KnownIds)

SpecClose == Boot(MaxCap) /\ [][NextClose]_vars

\* idle sessions, dead workers and the watchdog
NextWatchdog ==
  \/ Environment
  \/ Tick
  \/ Watchdog
  \/ \E r \in Requests : Return(r)
  \/ \E r \in Requests : getList(r, KnownIds, {"functions"})
  \/ openBinary("r1", {"/x"})

SpecWatchdog == Opened /\ [][NextWatchdog]_vars

\* opens, a restart and the restore of the persisted sessions
NextRestore ==
  \/ \E id \in Ids : monitorWorker(id)
  \/ Tick
  \/ Restart
  \/ RestoreSessions_one
  \/ Serve
  \/ \E r \in Requests : Return(r)
  \/ \E r \in Requests : openBinary(r, {"/x", "/y"})

SpecRestore == Init /\ [][NextRestore]_vars

\* calls that touch a session, the clock, and a restart
NextTouch ==
  \/ Environment
  \/ Tick
  \/ Restart
  \/ RestoreSessions_one
  \/ Serve
  \/ \E r \in Requests : Return(r)
  \/ \E r \in Requests : getList(r, KnownIds, {"functions"})

SpecTouch == Opened /\ [][NextTouch]_vars

\* one tool call reporting its progress
NextProgress ==
  \/ \E token \in BOOLEAN : newProgressReporter(token)
  \/ \E value \in Progress : Emit(value)
  \/ dropReporter

SpecProgress == Boot(MaxCap) /\ [][NextProgress]_vars

\* get_strings calls on one session, with analyses between them
NextFilter ==
  \/ \E regex \in Patterns, cs \in BOOLEAN, o \in Offsets, l \in Limits :
       getStrings_call(regex, cs, o, l)
  \/ getStrings_load
  \/ getStrings_filter
  \/ getStrings_result
  \/ \E n \in 0..MaxTotal : runAutoAnalysis_strings(n)

SpecFilter == Boot(MaxCap) /\ [][NextFilter]_vars

\* the strings loader run against one worker
NextStrings ==
  \/ \E n \in StringTotals : fetchAllStrings_call(n)
  \/ fetchAllStrings_chunk

SpecStrings == Boot(MaxCap) /\ [][NextStrings]_vars

\* one envelope serialized and parsed
NextEnvelope ==
  \/ MakeEnvelope
  \/ SerializeEnvelope
  \/ ParseEnvelope

SpecEnvelope == Boot(MaxCap) /\ [][NextEnvelope]_vars

\* one WebSocket connection
NextWebSocket ==
  \/ HandleIncomingHttpConnectionUpgradeToWebSocket
  \/ \E kind \in {"request", "notification", "garbage"} : ReadMessage(kind)
  \/ ReadMessage_error
  \/ PongHandler
  \/ processReceivedMessageAndSendResponse
  \/ enqueueMessageForTransmissionToClient
  \/ enqueueMessageForTransmissionToClient_send
  \/ enqueueMessageForTransmissionToClient_timeout
  \/ continuouslyWriteOutgoingMessagesToClientUntilConnectionCloses
  \/ WriteMessage
  \/ WriteMessage_error
  \/ unregisterAndCleanUpClientConnection
  \/ \E how \in {"mute", "gone"} : PeerFails(how)
  \/ PingTicker

SpecWebSocket == Boot(MaxCap) /\ [][NextWebSocket]_vars

\* one WebSocket connection and a shutdown of the connection manager
NextWebSocketClose ==
  \/ NextWebSocket
  \/ CloseAllActiveConnectionsGracefully
  \/ CloseAllActiveConnectionsGracefully_again
  \/ performGracefulConnectionClosureAndCleanup

SpecWebSocketClose == Boot(MaxCap) /\ [][NextWebSocketClose]_vars

\* list tools paging their enumerations
NextPage ==
  \/ \E n \in Totals, o \in Offsets, l \in Limits : getList_args(n, o, l)
  \/ getList_page
  \/ getList_result

SpecPage == Boot(MaxCap) /\ [][NextPage]_vars

(* ------------------------------- claims ------------------------------- *)
IsDone(r, tool) == req[r].tool = tool /\ req[r].pc = "done"

\* C1: whatever open_binary calls were made, concurrently or not, list_sessions
\* never reports two sessions with the same binary path.
C1_UniqueSessionPerBinary ==
  \A i, j \in List : sessObj[i].BinaryPath = sessObj[j].BinaryPath => i = j

\* C2: an open_binary that failed because its request context was cancelled after
\* Manager.Start had returned leaves the worker alone: the process was not killed,
\* and while it runs its handle is registered and GetClient succeeds.
C2_WorkerSurvivesCancel ==
  \A r \in Requests :
    IsDone(r, "open") /\ req[r].res = "e_ctx" =>
      /\ proc[req[r].sid] \in {"running", "crashed"}
      /\ proc[req[r].sid] = "running" => GetClient(req[r].sid)

\* C3: once a make_function or run_auto_analysis has returned success, the session
\* cache holds no list fetched before that mutation, so the next read of each kind
\* is a MISS that fetches from the worker, and no list call issued after the
\* mutation returned is a HIT on older data.
C3_CacheConsistency ==
  /\ \A id \in DOMAIN cache : \A k \in DOMAIN cache[id] : cache[id][k] >= settled[id]
  /\ \A r \in Requests :
       IsDone(r, "get") /\ req[r].res \in {"hit", "miss"} => req[r].got >= req[r].since

\* C3 happens: a list call issued after a successful mutation was a MISS and
\* fetched the mutated database.
C3_Witness ==
  \E r \in Requests :
    /\ IsDone(r, "get") /\ req[r].res = "miss"
    /\ req[r].since >= 1 /\ req[r].got >= req[r].since

\* what close_binary, the watchdog and a failed open must leave of a session
NoWorker(id) == id \notin workers /\ proc[id] # "running"
NoSocket(id) == SocketPath(id) \notin sockFiles
NoServerState(id) == id \notin DOMAIN cache /\ id \notin progress /\ id \notin DOMAIN store
Unregistered(id) == id \notin List /\ \A p \in DOMAIN binaryIndex : binaryIndex[p] # id

\* C4: close_binary(S) on an open session S with a running worker returns
\* success:true, and afterwards S is gone from the registry and no worker process,
\* worker handle, socket or persisted metadata file of S remains.
C4_IdempotentClose ==
  \A r \in Requests :
    IsDone(r, "close") /\ req[r].seen = "running" /\ req[r].res = "ok" =>
      /\ req[r].sid \notin List
      /\ NoWorker(req[r].sid)
      /\ NoSocket(req[r].sid)
      /\ req[r].sid \notin DOMAIN store

\* C5: after a watchdog sweep, every session of its Registry.Expired() snapshot is
\* absent from the registry and list_sessions, its worker is stopped, and its
\* metadata file, cache and progress entry are removed.
C5_ExpiredEvicted ==
  wd.pc = "idle" =>
    \A id \in wd.swept : Unregistered(id) /\ NoWorker(id) /\ NoServerState(id)

\* C6: close_binary on an open session whose worker process had crashed when the
\* call arrived succeeds and removes the session.
C6_CrashRecovery ==
  \A r \in Requests :
    IsDone(r, "close") /\ req[r].seen = "crashed" =>
      req[r].res = "ok" /\ req[r].sid \notin List

\* C7: a session whose worker process was already dead when a watchdog sweep
\* began is no longer reported by list_sessions when that sweep has ended.
C7_KilledWorkerEvicted ==
  wd.pc = "idle" => \A id \in wd.dead : id \notin List

\* C8: after an open_binary that failed once its session was created, the session
\* is absent from the registry and its path index, no worker handle or process
\* remains, and no cache, progress or persisted-metadata entry exists for its id.
C8_FailedOpenTornDown ==
  \A r \in Requests :
    IsDone(r, "open") /\ req[r].res \in {"e_start", "e_fail", "e_ctx"} =>
      Unregistered(req[r].sid) /\ NoWorker(req[r].sid) /\ NoServerState(req[r].sid)

\* a persisted session is back: same id, binary path, creation time and timeout,
\* a socket path allocated by this server run, and a worker started for it
Restored(id) ==
  /\ id \in List
  /\ sessObj[id].ID = id
  /\ sessObj[id].BinaryPath = Clean(metas.loaded[id].BinaryPath)
  /\ sessObj[id].CreatedAt = metas.loaded[id].CreatedAt
  /\ sessObj[id].Timeout = metas.loaded[id].Timeout
  /\ sessObj[id].SocketPath = <<id, epoch>>
  /\ proc[id] = "running" /\ GetClient(id)

\* the persisted sessions the capacity admits: the first maxSessions of the
\* loaded files
Admitted ==
  {id \in DOMAIN metas.loaded :
     Cardinality({j \in DOMAIN metas.loaded : j < id}) < maxSessions}

\* C9 as stated: when RestoreSessions has returned, every persisted session, up to
\* the capacity limit, is restored.
C9_AllRestored ==
  boot = "restored" => \A id \in Admitted : Restored(id)

\* C9, amended: when RestoreSessions has returned, every persisted session that
\* Registry.Restore accepted and whose worker started is restored; one whose
\* worker did not start is absent and its metadata file is deleted; and a session
\* is skipped only when the registry is full.
C9_StartedRestored ==
  boot = "restored" =>
    /\ metas.started \cup metas.failed \cup metas.skipped = DOMAIN metas.loaded
    /\ \A id \in metas.started : Restored(id)
    /\ \A id \in metas.failed : id \notin List /\ id \notin DOMAIN store
    /\ metas.skipped # {} => Cardinality(List) = maxSessions

\* C9 happens: a restart restored a session created at an earlier time.
C9_Witness ==
  /\ boot = "restored"
  /\ \E id \in metas.started : Restored(id) /\ sessObj[id].CreatedAt < now

\* C10: the registry never holds more than maxSessions sessions, and no step adds
\* a session to a registry that is at its maximum.
C10_CapacityRespected ==
  [][/\ Cardinality(sessions') <= maxSessions'
     /\ (Cardinality(sessions) >= maxSessions /\ maxSessions' = maxSessions)
          => sessions' \subseteq sessions]_vars

\* C10 happens: Registry.Restore skipped a persisted session, and Registry.Create
\* refused an open, with the registry at its maximum.
C10_Witness ==
  /\ metas.skipped # {}
  /\ \E r \in Requests : IsDone(r, "open") /\ req[r].res = "e_create"
  /\ Cardinality(sessions) = maxSessions

\* C11 as stated: a list call with offset o and limit L on an enumeration of N
\* items returns items o..min(o+L, N) in order, count = len(items) <= L, total = N.
C11_PaginationLaw ==
  pg.pc = "done" =>
    /\ ~pg.res.err
    /\ pg.res.items = SubSeq(Enumeration(pg.total), pg.offset + 1,
                             Min({pg.offset + pg.limit, pg.total}))
    /\ pg.res.count = Len(pg.res.items) /\ pg.res.count <= pg.limit
    /\ pg.res.total = pg.total

\* C11, amended: a call with offset < 0 or limit > 10000 is refused; otherwise,
\* with L the limit, or 1000 when the limit is <= 0, the call returns items
\* min(o, N)..min(o+L, N) in order, count = len(items) <= L, total = N.
C11_PaginationLawValid ==
  pg.pc = "done" =>
    IF pg.offset < 0 \/ pg.limit > 10000 THEN pg.res.err
    ELSE LET L == IF pg.limit <= 0 THEN 1000 ELSE pg.limit IN
           /\ ~pg.res.err
           /\ pg.res.items = SubSeq(Enumeration(pg.total), Min({pg.offset, pg.total}) + 1,
                                    Min({pg.offset + L, pg.total}))
           /\ pg.res.count = Len(pg.res.items) /\ pg.res.count <= L
           /\ pg.res.total = pg.total

\* C11 happens: a page from inside the enumeration, shorter than what follows the
\* offset, and a call without a limit on an enumeration longer than the default
C11_Witness ==
  /\ pg.pc = "done" /\ ~pg.res.err
  /\ \/ pg.offset > 0 /\ pg.res.count > 0 /\ pg.offset + pg.res.count < pg.total
     \/ pg.limit <= 0 /\ pg.res.count < pg.total

\* C12: a session in the registry that no open_binary call is still setting up
\* has a worker handle registered for its id in the worker manager.
C12_OneHandlePerSession ==
  \A id \in List : ~Opening(id) => GetClient(id)

\* a list call has returned a list, from the cache or from the worker
Listed(r) == IsDone(r, "get") /\ req[r].res \in {"hit", "miss"}

\* C13: two list calls of one kind on one session that found the cache entry
\* missing at the same time, with no invalidation of the session's cache since,
\* and that both returned a list: the loader ran for one of them only, and both
\* returned the same list.
C13_SingleFetch ==
  \A r, q \in Requests :
    /\ r # q /\ Listed(r) /\ Listed(q)
    /\ req[r].peer /\ req[q].peer
    /\ req[r].sid = req[q].sid /\ req[r].kind = req[q].kind
    => /\ ~(req[r].fetched /\ req[q].fetched)
       /\ req[r].got = req[q].got

\* C14: a list call that arrived after a load of its kind had succeeded for its
\* session (the result an empty list or not), with no invalidation of the
\* session's cache from that load to the call's return, returned a list without
\* running the loader.
C14_LoadedOnce ==
  \A r \in Requests :
    IsDone(r, "get") /\ req[r].prior => Listed(r) /\ ~req[r].fetched

\* C15: the last_activity of a session never decreases and never exceeds the
\* current time: not from one step to the next while the session is registered,
\* and not over a server restart that restores the session.
C15_TouchMonotonic ==
  [][\A id \in Ids :
       /\ id \in sessions /\ id \in sessions'
            => sessObj'[id].LastActivity >= sessObj[id].LastActivity
       /\ id \in sessions' => sessObj'[id].LastActivity <= now'
       /\ id \in sessions' \ sessions /\ id \in DOMAIN metas'.before
            => sessObj'[id].LastActivity >= metas'.before[id]]_vars

\* C16: when a tool call that resolved an existing session has returned and the
\* session is still registered, the session's last_activity is not older than
\* the arrival of the call.
C16_CallsTouch ==
  \A r \in Requests :
    req[r].pc = "done" /\ req[r].at >= 0 /\ req[r].sid \in sessions
      => sessObj[req[r].sid].LastActivity >= req[r].at

\* the largest of the first n values given to Emit, and at least zero
Highest(n) == CHOOSE m \in Progress : /\ \A i \in 1..n : rep.given[i] <= m
                                      /\ m = 0 \/ \E i \in 1..n : rep.given[i] = m

\* C17: the progress values notified for one tool call never decrease: every
\* value notified is the largest value the tool has emitted so far, so a value
\* below the last notified one goes out as that last one.
C17_ProgressMonotonic ==
  /\ \A i, j \in 1..Len(rep.sent) : i <= j => rep.sent[i] <= rep.sent[j]
  /\ rep.token => /\ Len(rep.sent) = Len(rep.given)
                  /\ \A i \in 1..Len(rep.sent) : rep.sent[i] = Highest(i)

\* C17 happens: a tool emitted a value below an earlier one and its notification
\* carried the earlier value.
C17_Witness ==
  /\ rep.token
  /\ \E i \in 2..Len(rep.sent) :
       rep.given[i] < rep.given[i - 1] /\ rep.sent[i] = rep.sent[i - 1]
                                       /\ rep.sent[i] > rep.given[i]

\* the envelopes queued for request id
Answers(id) == Cardinality({i \in 1..Len(ws.enqueued) : ws.enqueued[i] = id})

\* C18: every request envelope the connection has finished processing while the
\* connection was not cancelled has exactly one response or error envelope with
\* its id queued for the peer, and no id is ever answered twice.
C18_OneAnswerPerRequest ==
  /\ \A id \in ws.handled : Answers(id) = 1
  /\ \A id \in 1..MaxReq : Answers(id) <= 1

\* C19: a connection whose read deadline (60 s after the last pong) has passed
\* by more than a ping interval, with the read loop not inside a request and no
\* step of the server due, is closed and removed from the active-connection table.
C19_SilentPeerClosed ==
  /\ ws.rd \in {"read", "exit"} /\ ~Busy
  /\ ws.t > ws.deadline + websocketPingIntervalBetweenMessagesInSeconds
  => ws.closed /\ ~ws.table

\* two envelopes have the same type and id, the same payloads present, and in
\* each payload the same JSON value (the same text once compacted)
SameEnvelope(a, b) ==
  /\ a.type = b.type /\ a.id = b.id
  /\ \A i \in 1..Len(PayloadKeys) :
       LET k == PayloadKeys[i]
       IN /\ (a[k] = <<>>) <=> (b[k] = <<>>)
          /\ compact(a[k], FALSE) = compact(b[k], FALSE)

\* C20: the envelope parsed from the serialization of an envelope is the
\* original one: same type, same id, the same payloads present and absent, and
\* every present payload the same JSON value.
C20_EnvelopeRoundTrip ==
  env.pc = "parsed" => SameEnvelope(env.parsed, env.made)

\* an envelope with an id that needs escaping, a payload with white space, a null
\* payload and two absent payloads has been serialized and parsed
C20_Witness ==
  /\ env.pc = "parsed"
  /\ env.made.type = <<"request">> /\ env.made.id = <<"\"", "<">>
  /\ env.made.request = <<"{", " ", "}">> /\ env.made.response = <<>>
  /\ env.made.error = <<"null">> /\ env.made.notification = <<>>
  /\ env.parsed.request = <<"{", "}">>

\* C21: no client-observable text of a call, neither the error text of its tool
\* result nor a progress message it emitted, contains the error string behind a
\* failure.
C21_NoErrorDetail ==
  \A r \in Requests : \A t \in {req[r].text, req[r].msg} :
    \A i \in 1..Len(t) : t[i] \notin InternalErrors

\* C22: no call waits for a lock that another call holds while its worker RPC
\* is in flight.
C22_NoLockAcrossRpc ==
  \A r \in Requests : req[r].pc \in {"g_rlock", "g_lock"} => ~Locked(req, r)

\* C23: the path index maps a normalized path p to session s exactly when s is in
\* the id index with binary path p.
C23_IndicesAgree ==
  \A p \in {Clean(q) : q \in RawPaths}, id \in Ids :
    (p \in DOMAIN binaryIndex /\ binaryIndex[p] = id)
      <=> (id \in sessions /\ sessObj[id].BinaryPath = p)

\* C24: Manager.Stop called by close_binary for a session whose worker had been
\* started never returns an error, whatever the worker process and its monitor
\* goroutine have done, and when it has returned the manager holds no handle for
\* the session.
C24_StopSafe ==
  \A r \in Requests :
    req[r].tool = "close" /\ req[r].seen \in {"running", "crashed"} =>
      /\ req[r].res # "e_stop"
      /\ req[r].pc = "c_delete" => req[r].sid \notin workers

\* C25: when a cache-miss fetch fails, by an error of the worker or by the
\* cancellation of the call's context, the cache is left as it was, with the
\* entry not populated in the object the call held, and no call is kept waiting
\* for a lock of that object by a loader that is no longer running.
C25_FailedFetchLeavesNothing ==
  [][\A r \in Requests :
       req[r].pc = "g_rpc" /\ req'[r].pc = "done" /\ req'[r].res = "e_load" =>
         /\ cache' = cache
         /\ \A q \in Sharers(req, r) :
              /\ req[q].kind = req[r].kind => HeldIn(req', cache', q) = Nil
              /\ ~Locked(req', q)]_vars

\* C25 happens: a fetch was aborted by the cancellation of its call, and a later
\* load of the same session and kind ran the loader again and returned the list
C25_Witness ==
  \E r, q \in Requests :
    /\ IsDone(r, "get") /\ req[r].res = "e_load"
    /\ req[r].text = logAndSanitizeError("cache load", "context canceled")
    /\ IsDone(q, "get") /\ req[q].res = "miss" /\ req[q].retry /\ req[q].fetched
    /\ req[q].sid = req[r].sid /\ req[q].kind = req[r].kind
    /\ Field(cache, req[q].sid, req[q].kind) = req[q].got

\* C26: the strings loader asks for chunks of 1000 strings at the consecutive
\* offsets 0, 1000, 2000, ...; it goes on exactly while the chunks are full, so it
\* makes no more than one request per 1000 strings of the worker and one more;
\* and when it returns, what it returns is the worker's list of strings, each
\* string once and in the worker's order.
C26_StringsLoader ==
  /\ \A i \in 1..Len(ld.asked) : ld.asked[i] = <<(i - 1) * 1000, 1000>>
  /\ Len(ld.asked) <= (Len(ld.data) \div 1000) + 1
  /\ ld.pc = "loop" => ld.all = SubSeq(ld.data, 1, 1000 * Len(ld.asked))
  /\ ld.pc = "done" => /\ ld.all = ld.data
                       /\ Len(ld.asked) = (Len(ld.data) \div 1000) + 1

\* C26 happens: a list of exactly two full chunks was fetched with three
\* requests, the last one answered by an empty chunk
C26_Witness ==
  /\ ld.pc = "done" /\ Len(ld.data) = 2000 /\ Len(ld.asked) = 3
  /\ ld.all = ld.data /\ ld.all[1001] = 4096 * 1001

\* C27: whatever list calls came before, the cache holds the session's whole
\* unfiltered list of strings or nothing, and a get_strings call that returns a
\* page returns the items of the whole list that match its regex (all items when
\* it has none), from its offset on and at most its limit of them, whether the
\* list came from a cache HIT or a MISS.
C27_FilterAfterCache ==
  /\ ls.strings \in {<<>>, ls.data}
  /\ ls.loaded => ls.strings = ls.data
  /\ ls.pc = "done" /\ ~ls.res.err =>
       LET wanted(item) == \/ ls.regex = ""
                           \/ IF ls.cs THEN item.Value = ls.regex
                              ELSE ToLower(item.Value) = ToLower(ls.regex)
           all == SelectSeq(ls.data, wanted)
           lim == IF ls.limit <= 0 THEN 1000 ELSE ls.limit
           lo == IF ls.offset > Len(all) THEN Len(all) ELSE ls.offset
           hi == IF lo + lim > Len(all) THEN Len(all) ELSE lo + lim IN
         /\ ls.res.items = [i \in 1..(hi - lo) |-> all[lo + i]]
         /\ ls.res.total = Len(all)

\* C27 happens: a case-insensitive filter served from a HIT, after a call with
\* another regex, returned the second of the two matching strings
C27_Witness ==
  /\ ls.pc = "done" /\ ls.hit /\ ~ls.res.err
  /\ ls.regex = "alpha" /\ ~ls.cs /\ ls.prior = "beta" /\ ls.offset = 1
  /\ Len(ls.data) = 3
  /\ ls.res.items = <<[Address |-> 8192, Value |-> "Alpha"]>>

\* a teardown of session id has finished: a close_binary that returned success,
\* a watchdog sweep that evicted it, or an open_binary that failed after
\* creating it
TornDown(id) ==
  \/ \E r \in Requests : IsDone(r, "close") /\ req[r].res = "ok" /\ req[r].sid = id
  \/ wd.pc = "idle" /\ id \in wd.swept
  \/ \E r \in Requests : /\ IsDone(r, "open") /\ req[r].sid = id
                         /\ req[r].res \in {"e_start", "e_fail", "e_ctx"}

\* C28: once a teardown of a session (close_binary, watchdog eviction or failed
\* open) has finished and no tool call on the session is still running, the
\* open_binary call that persists it included, no metadata file of its id exists.
C28_NoMetadataAfterTeardown ==
  \A id \in Ids :
    TornDown(id) /\ (\A q \in Requests : req[q].sid = id => req[q].pc \in {"idle", "done"})
      => id \notin DOMAIN store

\* C29: a session restored by RestoreSessions after a restart is reported by
\* Registry.Expired only when its timeout has elapsed since the last activity it
\* had before the restart: one that was touched within its timeout is not
\* reported.
C29_RestoredNotExpired ==
  \A id \in metas.started :
    id \in sessions /\ now - metas.before[id] <= sessObj[id].Timeout => id \notin Expired

\* C30: no two frame writes to the socket of a connection overlap: while the
\* write loop is writing a data message or a ping, holding the write mutex, no
\* close frame is being written, and the other way round.
C30_WritesSerialized == ~(ws.wr = "write" /\ ws.cl = "frame")

\* C31: however many times a connection is unregistered, by the goroutine that
\* waits for its loops and by CloseAllActiveConnectionsGracefully, its close
\* frame is sent, its socket closed and its outbound queue closed at most once
\* each, and from the first such call on it is not in the connection table.
C31_CloseOnce ==
  /\ ws.closeFrames <= 1 /\ ws.socketCloses <= 1 /\ ws.queueCloses <= 1
  /\ ws.attempts > 0 \/ ws.closed => ~ws.table

\* C31 happens: the connection was closed by CloseAllActiveConnectionsGracefully,
\* a second call found it gone, and then the goroutine waiting for its loops
\* unregistered it once more
C31_Witness ==
  /\ ws.attempts = 3 /\ ws.waited /\ ws.cl = "done" /\ ws.closed /\ ~ws.table
  /\ ws.closeFrames = 1 /\ ws.socketCloses = 1 /\ ws.queueCloses = 1

\* C32: when Manager.Start has returned an error, for an open_binary call or for
\* a session RestoreSessions tried to restart, no worker handle is registered
\* for the session and no worker process of it is running.
C32_StartFailureLeavesNothing ==
  /\ \A r \in Requests :
       req[r].tool = "open" /\ req[r].res = "e_start" =>
         req[r].sid \notin workers /\ proc[req[r].sid] # "running"
  /\ \A id \in metas.failed : id \notin workers /\ proc[id] # "running"

\* C32 happens: an open_binary call has ended with the start error after its
\* worker process had been spawned, and the process was killed
C32_Witness ==
  \E r \in Requests :
    /\ IsDone(r, "open") /\ req[r].res = "e_start"
    /\ proc[req[r].sid] = "killed" /\ req[r].sid \notin workers

\* C33: a tool call naming a session id that Registry.Get does not find ends at
\* once with "session not found": it makes no worker RPC, and the registry, the
\* worker handles and processes, the session caches, the progress map, the
\* metadata store and the workers' databases are as before.
C33_NotFoundChangesNothing ==
  [][\A r \in Requests :
       req[r].pc = "idle" /\ req'[r].res = "notfound" =>
         /\ req'[r].pc = "done" /\ ~req'[r].fetched
         /\ UNCHANGED <<sessions, sessObj, binaryIndex, nextId, workers, proc, monitor,
                        cache, progress, store, dbVer>>]_vars

\* C33 happens: get_functions on a session that had been evicted ended with
\* "session not found"
C33_Witness ==
  \E r \in Requests :
    /\ IsDone(r, "get") /\ req[r].res = "notfound"
    /\ req[r].sid \in KnownIds /\ req[r].sid \notin sessions

\* C34: when the watchdog starts to tear a session down (Manager.Stop), the
\* session is expired at that moment: one touched by a tool call after the
\* Expired() snapshot was taken is left alone.
C34_EvictsOnlyExpired ==
  [][wd.pc = "w_stop" /\ wd'.pc = "w_delete" /\ wd.cur \in sessions
       => IsExpired(sessObj[wd.cur])]_vars

\* C35: when open_binary has answered reused:true with a session id, the
\* open_binary call that created that session, if it has not returned yet, has
\* its worker registered and its OpenBinary RPC answered with success, and it
\* does not end in a failure that removes the session.
C35_ReusedIsOpen ==
  \A r, q \in Requests :
    /\ IsDone(r, "open") /\ req[r].res = "reused"
    /\ q # r /\ req[q].tool = "open" /\ req[q].sid = req[r].sid /\ req[q].res # "reused"
    => \/ req[q].pc \in {"o_persist", "o_ready"}
       \/ req[q].pc = "done" /\ req[q].res = "ok"

\* C36: when no tool call is in flight and the watchdog is not in a sweep, every
\* key of the session-cache map and of the progress map is the id of a
\* registered session.
C36_NoStaleEntries ==
  (\A r \in Requests : req[r].pc \in {"idle", "done"}) /\ wd.pc = "idle"
    => /\ DOMAIN cache \subseteq sessions
       /\ progress \subseteq sessions

\* C37: a get_functions call issued after a set_name (rename_global,
\* set_function_type, import_il2cpp, import_flutter) has returned success
\* returns a list at least as recent as the worker database that the renaming
\* produced, never an older cached list.
C37_NoStaleNames ==
  \A r \in Requests :
    IsDone(r, "get") /\ req[r].res \in {"hit", "miss"} => req[r].got >= req[r].since

\* C38: no message is sent on a connection's channel of outgoing messages after
\* the channel has been closed: no enqueue ends in the panic of a send on a
\* closed channel.
C38_NoSendOnClosed == ws.rd # "panic"

C40_NoWorkerAfterShutdown == orphans = {}

====
